---- MODULE Spec2Model ----
(***************************************************************************)
(* State-machine DSL compiler of rust-fsm / nxt-fsm.                       *)
(*                                                                         *)
(* The repository holds two generations of the compiler:                   *)
(*   "rust_fsm" : rust-fsm-dsl, which flattens every entry into a list of  *)
(*                guarded match cases and generates two dispatch           *)
(*                functions, transition() and output();                    *)
(*   "nxt"      : nxt-fsm-dsl, which generates one transition() returning  *)
(*                the pair (state, output) and compiles a match guard to   *)
(*                a nested match over the bound fields.                    *)
(* The model compiles a parsed definition with either generation and runs  *)
(* the generated dispatch code on inputs.                                  *)
(***************************************************************************)
EXTENDS Integers, Sequences, FiniteSets, TLC

VARIABLES impl, features, source, def, query, phase, cases, types, diagram, state, COUNT, last,
          accepted,
          mutex, pc, local, result, order

\* the variables of the threads that share one machine
tvars == <<mutex, pc, local, result, order>>

vars == <<impl, features, source, def, query, phase, cases, types, diagram, state, COUNT, last,
          accepted,
          mutex, pc, local, result, order>>

(***************************************************************************)
(* Bounds of the model.                                                    *)
(***************************************************************************)
\* field values of an input range over 0..MaxVal
MaxVal == 2
\* the external counter read and written by closures stays within 0..MaxCount
MaxCount == 2
\* a state block of a generated definition holds at most MaxEntries entries
MaxEntries == 2
MaxHist == 3
NThreads == 2

Vals == 0..MaxVal

Impls == {"rust_fsm", "nxt"}

\* "no identifier": Option::None for a state or an output identifier
NoId == "-"

(***************************************************************************)
(* The parsed tree.                                                        *)
(***************************************************************************)
\* InputVariant / Event: a name and the list of its field types
InputVariant(name, fields) == [name |-> name, fields |-> fields]

\* OutputSpec: Constant(ident) or Call(closure); "none" is Option::None
NoOutput == [kind |-> "none", id |-> NoId, fn |-> NoId]
Constant(id) == [kind |-> "const", id |-> id, fn |-> NoId]
Call(fn) == [kind |-> "call", id |-> NoId, fn |-> fn]

\* Patterns of a match arm.  A pattern is the wildcard `_` or a tuple of
\* sub-patterns, one per bound field:
\*   any        `_`
\*   lit v      the literal v
\*   range l h  `l..h`  (h exclusive)
\*   from l     `l..`
\*   bind n     the identifier __arg<n>, which matches anything and binds it
PWild == [kind |-> "wild", elems |-> <<>>]
PTuple(elems) == [kind |-> "tuple", elems |-> elems]
PAny == [k |-> "any", lo |-> 0, hi |-> 0]
PLit(v) == [k |-> "lit", lo |-> v, hi |-> v]
PRange(lo, hi) == [k |-> "range", lo |-> lo, hi |-> hi]
PFrom(lo) == [k |-> "from", lo |-> lo, hi |-> 0]
PBind(n) == [k |-> "bind", lo |-> n, hi |-> 0]

\* MatchArm / SubTransition
MatchArm(pattern, final_state, output) ==
    [pattern |-> pattern, final_state |-> final_state, output |-> output]

\* Guard: absent, Closure(expr) or Binding(bindings, arms)
\* A guard expression is Option<Expr>: "none" is Option::None.
NoExpr == [op |-> "none", k |-> 0, pat |-> PWild]
GeExpr(k) == [op |-> "ge", k |-> k, pat |-> PWild]         \* |a: &u32| *a >= k
LtExpr(k) == [op |-> "lt", k |-> k, pat |-> PWild]         \* |a: &u32| *a < k
CountGt0 == [op |-> "count_gt", k |-> 0, pat |-> PWild]    \* || COUNT.load(Relaxed) > 0
\* |a: &u32| { let min = k; *a >= min }
BlockGeExpr(k) == [op |-> "block_ge", k |-> k, pat |-> PWild]

NoGuard == [kind |-> "none", expr |-> NoExpr, bindings |-> 0, arms |-> <<>>]
Closure(expr) == [kind |-> "closure", expr |-> expr, bindings |-> 0, arms |-> <<>>]
Binding(n, arms) == [kind |-> "binding", expr |-> NoExpr, bindings |-> n, arms |-> arms]

\* TransitionEntry: for a Binding guard the target and the output live in the arms
TransitionEntry(input, guard, final_state, output) ==
    [input |-> input, guard |-> guard, final_state |-> final_state, output |-> output]

\* TransitionDef / StateDef: a source state and its entries
TransitionDef(initial_state, transitions) ==
    [initial_state |-> initial_state, transitions |-> transitions]

(***************************************************************************)
(* Run-time values.                                                        *)
(***************************************************************************)
\* an input value: the variant's name and its field values
InputVal(name, args) == [name |-> name, args |-> args]

\* Option<Output>: None, an enumerated constant, or the value a call produced
NoOut == [kind |-> "none", id |-> NoId, v |-> 0]
ConstOut(id) == [kind |-> "const", id |-> id, v |-> 0]
ValOut(fn, v) == [kind |-> "val", id |-> fn, v |-> v]

\* whether value v satisfies sub-pattern p
SubMatches(p, v) ==
    CASE p.k = "any" -> TRUE
      [] p.k = "bind" -> TRUE
      [] p.k = "lit" -> v = p.lo
      [] p.k = "range" -> p.lo <= v /\ v < p.hi
      [] p.k = "from" -> p.lo <= v

\* PatMatches with the wildcard pattern `_` matching nothing
PatMatchesNoWild(pat, args) ==
    /\ pat.kind = "tuple"
    /\ Len(pat.elems) = Len(args)
    /\ \A n \in 1..Len(args) : SubMatches(pat.elems[n], args[n])

\* whether the tuple of field values satisfies the pattern (Rust's matches!/match)
PatMatches(pat, args) ==
    \/ pat.kind = "wild"
    \/ /\ pat.kind = "tuple"
       /\ Len(pat.elems) = Len(args)
       /\ \A n \in 1..Len(args) : SubMatches(pat.elems[n], args[n])

\* the value of a guard expression applied to the field values; cnt is the
\* value of the external counter COUNT at the time of the call
EvalGuard(expr, args, cnt) ==
    CASE expr.op = "ge" -> args[1] >= expr.k
      [] expr.op = "block_ge" -> args[1] >= expr.k
      [] expr.op = "lt" -> args[1] < expr.k
      [] expr.op = "count_gt" -> cnt > expr.k
      [] expr.op = "matches" -> PatMatches(expr.pat, args)

\* EvalCall with `|a| a + 1` also bumping the static counter
EvalCallCounting(fn, args, cnt) ==
    CASE fn = "inc_o2" -> [out |-> [kind |-> "val", id |-> fn, v |-> cnt], cnt |-> cnt + 1]
      [] fn = "succ" -> [out |-> [kind |-> "val", id |-> fn, v |-> args[1] + 1], cnt |-> cnt + 1]
      [] fn = "div" -> [out |-> [kind |-> "val", id |-> fn, v |-> args[1] \div args[2]], cnt |-> cnt]

\* the result of a call output: its value and the counter after the call
\*   inc_o2 : || inc_o2()            MyOut::O2(COUNT.fetch_add(1, Relaxed))
\*   succ   : a closure of its one argument only, as |msg: &str| Echo(msg.len())
\*   div    : |x, y| Result(x / y)
EvalCall(fn, args, cnt) ==
    CASE fn = "inc_o2" -> [out |-> ValOut(fn, cnt), cnt |-> cnt + 1]
      [] fn = "succ" -> [out |-> ValOut(fn, args[1] + 1), cnt |-> cnt]
      [] fn = "div" -> [out |-> ValOut(fn, args[1] \div args[2]), cnt |-> cnt]

\* the number of parameters of a call closure
CallArity(fn) == CASE fn = "inc_o2" -> 0 [] fn = "succ" -> 1 [] fn = "div" -> 2

(***************************************************************************)
(* rust-fsm-dsl: normalisation of the entries into the flat case list.     *)
(***************************************************************************)
\* struct Transition: one flat case
Transition(initial_state, input_value, guard_expr, final_state, output) ==
    [initial_state |-> initial_state, input_value |-> input_value,
     guard_expr |-> guard_expr, final_state |-> final_state, output |-> output]

\* BindingGuard::guard_expr_for_arm: |bindings| matches!((bindings), pattern)
guard_expr_for_arm(arm) == [op |-> "matches", k |-> 0, pat |-> arm.pattern]

\* the assert_eq! of guard_expr_for_arm: it panics, and the build fails, when
\* the number of bindings differs from the number of fields
BindingArityOk(entry) ==
    entry.guard.kind = "binding" /\ entry.guard.arms # <<>>
        => entry.guard.bindings = Len(entry.input.fields)

\* the cases one entry expands to (the inner closure of the flat_map)
ExpandEntry(st, entry) ==
    CASE entry.guard.kind = "binding" ->
            [a \in 1..Len(entry.guard.arms) |->
                Transition(st, entry.input, guard_expr_for_arm(entry.guard.arms[a]),
                           entry.guard.arms[a].final_state, entry.guard.arms[a].output)]
      [] entry.guard.kind = "closure" ->
            <<Transition(st, entry.input, entry.guard.expr, entry.final_state, entry.output)>>
      [] entry.guard.kind = "none" ->
            <<Transition(st, entry.input, NoExpr, entry.final_state, entry.output)>>

\* ExpandEntries appending the expansions in reverse declaration order
RECURSIVE ExpandEntriesRev(_, _)
ExpandEntriesRev(st, entries) ==
    IF entries = <<>> THEN <<>>
    ELSE ExpandEntriesRev(st, Tail(entries)) \o ExpandEntry(st, Head(entries))

RECURSIVE ExpandEntries(_, _)
ExpandEntries(st, entries) ==
    IF entries = <<>> THEN <<>>
    ELSE ExpandEntry(st, Head(entries)) \o ExpandEntries(st, Tail(entries))

\* TransitionDef::as_match_cases / the outer flat_map over the state blocks
RECURSIVE as_match_cases(_)
as_match_cases(blocks) ==
    IF blocks = <<>> THEN <<>>
    ELSE ExpandEntries(Head(blocks).initial_state, Head(blocks).transitions)
            \o as_match_cases(Tail(blocks))

(***************************************************************************)
(* rust-fsm-dsl: the generated dispatch functions.                         *)
(***************************************************************************)
\* ArmTaken with the arm's pattern not naming the source state
ArmTakenAnyState(c, s, i, cnt) ==
    /\ c.input_value.name = i.name
    /\ (c.guard_expr.op # "none" => EvalGuard(c.guard_expr, i.args, cnt))

\* whether the match arm generated for case c is taken for (s, i):
\* (Self::State::s, Self::Input::name(ref __arg..)) if (guard)(__arg..)
ArmTaken(c, s, i, cnt) ==
    /\ c.initial_state = s
    /\ c.input_value.name = i.name
    /\ (c.guard_expr.op # "none" => EvalGuard(c.guard_expr, i.args, cnt))

\* the cases that get an arm in output(): those with an OutputSpec
output_cases(cs) == SelectSeq(cs, LAMBDA c : c.output.kind # "none")

\* index of the first arm of cs taken for (s, i), scanning from arm n; 0 if none
RECURSIVE FirstArm(_, _, _, _, _)
FirstArm(cs, n, s, i, cnt) ==
    IF n > Len(cs) THEN 0
    ELSE IF ArmTaken(cs[n], s, i, cnt) THEN n
    ELSE FirstArm(cs, n + 1, s, i, cnt)

\* the value of an OutputSpec for input i
OutputValue(spec, i, cnt) ==
    CASE spec.kind = "none" -> [out |-> NoOut, cnt |-> cnt]
      [] spec.kind = "const" -> [out |-> ConstOut(spec.id), cnt |-> cnt]
      [] spec.kind = "call" -> EvalCall(spec.fn, i.args, cnt)

\* transition taking the last arm that applies instead of the first
RECURSIVE LastArm(_, _, _, _, _)
LastArm(cs, n, s, i, cnt) ==
    IF n = 0 THEN 0
    ELSE IF ArmTaken(cs[n], s, i, cnt) THEN n
    ELSE LastArm(cs, n - 1, s, i, cnt)

transitionLastMatch(cs, s, i, cnt) ==
    LET n == LastArm(cs, Len(cs), s, i, cnt)
    IN  IF n = 0 THEN NoId ELSE cs[n].final_state

\* transition whose fallback arm is `_ => Some(state)`
transitionStay(cs, s, i, cnt) ==
    LET n == FirstArm(cs, 1, s, i, cnt)
    IN  IF n = 0 THEN s ELSE cs[n].final_state

\* output whose arms are generated without their guard
outputUnguarded(cs, s, i, cnt) ==
    LET oc == output_cases(cs)
        hit == {k \in 1..Len(oc) : oc[k].initial_state = s /\ oc[k].input_value.name = i.name}
    IN  IF hit = {} THEN [out |-> NoOut, cnt |-> cnt]
        ELSE OutputValue(oc[CHOOSE k \in hit : \A j \in hit : k <= j].output, i, cnt)

\* fn transition(state, input) -> Option<State>: NoId is None
transition(cs, s, i, cnt) ==
    LET n == FirstArm(cs, 1, s, i, cnt)
    IN  IF n = 0 THEN NoId ELSE cs[n].final_state

\* fn output(state, input) -> Option<Output>, with the counter after the call
output(cs, s, i, cnt) ==
    LET oc == output_cases(cs)
        n == FirstArm(oc, 1, s, i, cnt)
    IN  IF n = 0 THEN [out |-> NoOut, cnt |-> cnt]
        ELSE OutputValue(oc[n].output, i, cnt)

\* the closures a scan of the arms cs invokes for (s, i): one guard evaluation
\* for every arm whose pattern matches, up to and including the arm taken
GuardEvals(cs, s, i, cnt) ==
    LET n == FirstArm(cs, 1, s, i, cnt)
        upto == IF n = 0 THEN Len(cs) ELSE n
    IN  Cardinality({k \in 1..upto : /\ cs[k].initial_state = s
                                     /\ cs[k].input_value.name = i.name
                                     /\ cs[k].guard_expr.op # "none"})

(***************************************************************************)
(* nxt-fsm-dsl: the generated transition(), which returns the pair         *)
(* (state, output).                                                        *)
(***************************************************************************)
\* the top-level match arms, one per Transition of every StateDef, in order
RECURSIVE NxtArms(_)
NxtArms(blocks) ==
    IF blocks = <<>> THEN <<>>
    ELSE [n \in 1..Len(Head(blocks).transitions) |->
            [parent_state |-> Head(blocks).initial_state,
             entry |-> Head(blocks).transitions[n]]]
         \o NxtArms(Tail(blocks))

\* Transition::to_tokens + SingleTransition::to_tokens: the arm's pattern and
\* guard; a Multiple transition's arm has no guard
NxtArmTaken(a, s, i, cnt) ==
    /\ a.parent_state = s
    /\ a.entry.input.name = i.name
    /\ (a.entry.guard.kind = "closure" => EvalGuard(a.entry.guard.expr, i.args, cnt))

RECURSIVE NxtFirstArm(_, _, _, _, _)
NxtFirstArm(as, n, s, i, cnt) ==
    IF n > Len(as) THEN 0
    ELSE IF NxtArmTaken(as[n], s, i, cnt) THEN n
    ELSE NxtFirstArm(as, n + 1, s, i, cnt)

\* the nested match of a Multiple transition: index of the first sub-transition
\* whose pattern matches the bound fields; 0 if none
RECURSIVE FirstSub(_, _, _)
FirstSub(arms, n, args) ==
    IF n > Len(arms) THEN 0
    ELSE IF PatMatches(arms[n].pattern, args) THEN n
    ELSE FirstSub(arms, n + 1, args)

\* the positions of an arm's pattern at which __arg<j> is bound
BindPos(pat, j) ==
    IF pat.kind = "tuple" THEN {p \in 1..Len(pat.elems) : pat.elems[p] = PBind(j)} ELSE {}

\* Output::to_tokens: (closure)(__arg0, .., __arg<n-1>), n the closure's
\* parameter count; inside a sub-transition the __arg are those its pattern binds
SubCallArgs(pat, args, fn) ==
    [j \in 1..CallArity(fn) |-> args[CHOOSE p \in BindPos(pat, j - 1) : TRUE]]

NxtOutputValue(spec, pat, inSub, i, cnt) ==
    CASE spec.kind = "none" -> [out |-> NoOut, cnt |-> cnt]
      [] spec.kind = "const" -> [out |-> ConstOut(spec.id), cnt |-> cnt]
      [] spec.kind = "call" ->
            EvalCall(spec.fn, IF inSub THEN SubCallArgs(pat, i.args, spec.fn) ELSE i.args, cnt)

\* fn transition(state, input) -> Option<(State, Option<Output>)>
nxt_transition(blocks, s, i, cnt) ==
    LET as == NxtArms(blocks)
        n == NxtFirstArm(as, 1, s, i, cnt)
        none == [state |-> NoId, out |-> NoOut, cnt |-> cnt]
    IN  IF n = 0 THEN none
        ELSE LET e == as[n].entry
             IN  IF e.guard.kind = "binding"
                 THEN LET m == FirstSub(e.guard.arms, 1, i.args)
                      IN  IF m = 0 THEN none
                          ELSE LET r == NxtOutputValue(e.guard.arms[m].output,
                                                       e.guard.arms[m].pattern, TRUE, i, cnt)
                               IN  [state |-> e.guard.arms[m].final_state,
                                    out |-> r.out, cnt |-> r.cnt]
                 ELSE LET r == NxtOutputValue(e.output, PWild, FALSE, i, cnt)
                      IN  [state |-> e.final_state, out |-> r.out, cnt |-> r.cnt]

NxtGuardEvals(blocks, s, i, cnt) ==
    LET as == NxtArms(blocks)
        n == NxtFirstArm(as, 1, s, i, cnt)
        upto == IF n = 0 THEN Len(as) ELSE n
    IN  Cardinality({k \in 1..upto : /\ as[k].parent_state = s
                                     /\ as[k].entry.input.name = i.name
                                     /\ as[k].entry.guard.kind = "closure"})

\* the tuples of field values of a variant with n fields
ArgTuples(n) == [1..n -> Vals]

\* whether rustc accepts the code generated for one Transition: the nested
\* match of a Multiple transition destructures the variant into the bindings,
\* must be exhaustive, and a call output may only use __arg the arm binds
NxtEntryCompiles(e) ==
    e.guard.kind = "binding" =>
        /\ e.guard.bindings = Len(e.input.fields)
        /\ \A args \in ArgTuples(Len(e.input.fields)) : FirstSub(e.guard.arms, 1, args) # 0
        /\ \A m \in 1..Len(e.guard.arms) :
              e.guard.arms[m].output.kind = "call" =>
                 \A j \in 1..CallArity(e.guard.arms[m].output.fn) :
                    BindPos(e.guard.arms[m].pattern, j - 1) # {}

(***************************************************************************)
(* The definitions compiled by the model.                                  *)
(***************************************************************************)
Push == InputVariant("Push", <<>>)
Coin == InputVariant("Coin", <<"u32">>)

EntryPool ==
    { \* Push => B
      TransitionEntry(Push, NoGuard, "B", NoOutput),
      \* Coin(u32) if |a: &u32| *a >= 1 => B
      TransitionEntry(Coin, Closure(GeExpr(1)), "B", NoOutput),
      \* Coin(u32) if |a: &u32| *a >= 2 => C [OutB]
      TransitionEntry(Coin, Closure(GeExpr(2)), "C", Constant("OutB")),
      \* Coin(u32) => C [OutB]
      TransitionEntry(Coin, NoGuard, "C", Constant("OutB")),
      \* Coin(u32) => A [|a: &u32| a + 1]
      TransitionEntry(Coin, NoGuard, "A", Call("succ")),
      \* Coin(u32) match x { 0..2 => B [OutA] }
      TransitionEntry(Coin, Binding(1, <<MatchArm(PTuple(<<PRange(0, 2)>>), "B", Constant("OutA"))>>),
                      NoId, NoOutput),
      \* Coin(u32) match x { 1 => B, _ => A [OutA] }
      TransitionEntry(Coin, Binding(1, <<MatchArm(PTuple(<<PLit(1)>>), "B", NoOutput),
                                         MatchArm(PWild, "A", Constant("OutA"))>>),
                      NoId, NoOutput),
      \* Push if || COUNT.load(Relaxed) > 0 => C
      TransitionEntry(Push, Closure(CountGt0), "C", NoOutput),
      \* Push => B [|| inc_o2()]
      TransitionEntry(Push, NoGuard, "B", Call("inc_o2")) }

\* B(Push) => A [OutA]
TailBlock == TransitionDef("B", <<TransitionEntry(Push, NoGuard, "A", Constant("OutA"))>>)

SeqsUpTo(S, n) == UNION {[1..k -> S] : k \in 1..n}

\* StateMachineDef: initial state, state blocks, and whether the
\* before_transition / after_transition attributes are given
\* input_type, state_type, output_type: whether the attribute
\* #[state_machine(input(..), state(..), output(..))] names an external type
StateMachineDef(initial_state, blocks, before, after) ==
    [initial_state |-> initial_state, blocks |-> blocks,
     before_transition |-> before, after_transition |-> after,
     input_type |-> FALSE, state_type |-> FALSE, output_type |-> FALSE]

Defs ==
    {StateMachineDef("A", <<TransitionDef("A", es), TailBlock>>, FALSE, FALSE) :
        es \in SeqsUpTo(EntryPool, MaxEntries)}

States == {"A", "B", "C"}

Inputs == {InputVal("Push", <<>>)} \cup {InputVal("Coin", <<v>>) : v \in Vals}

(***************************************************************************)
(* State of the model.                                                     *)
(*   impl   which generation of the compiler expands the macro             *)
(*   def    the parsed definition                                          *)
(*   query  the (state, input) a caller passes to the dispatch functions   *)
(*   phase  "parsed", then "built" or "rejected"                           *)
(*   cases  rust-fsm-dsl's flat case list                                  *)
(*   state  the machine's current state                                    *)
(*   COUNT  the static counter closures of the definition read and write   *)
(*   last   the last call made on the generated code and what it returned  *)
(***************************************************************************)
\* one entry of a call log: the function invoked and the machine's current
\* state at that moment
Ev(f, st) == [f |-> f, st |-> st]

Rep(n, x) == [k \in 1..n |-> x]

NoCall ==
    [op |-> "none", s |-> NoId, i |-> InputVal(NoId, <<>>), t |-> NoId, o |-> NoOut,
     err |-> FALSE, calls |-> <<>>, cnt0 |-> 0, hook |-> <<>>]

AllEntries(d) == {a.entry : a \in {NxtArms(d.blocks)[n] : n \in 1..Len(NxtArms(d.blocks))}}

(***************************************************************************)
(* The parser of rust-fsm-dsl.  The text of a state block is its initial   *)
(* state, its form (`A(Input) => ..` or `A => { .. }`) and the tokens of   *)
(* its entries; a bracketed or braced group is one token.                  *)
(***************************************************************************)
Tok(t) == [t |-> t, id |-> NoId, input |-> InputVariant(NoId, <<>>), expr |-> NoExpr,
           n |-> 0, arms |-> <<>>, output |-> NoOutput]

TInput(iv) == [Tok("input") EXCEPT !.input = iv]      \* Coin(u32)
TIf == Tok("if")
TMatch == Tok("match")
TClosure(expr) == [Tok("closure") EXCEPT !.expr = expr]   \* |a: &u32| ..
TBindings(n) == [Tok("bindings") EXCEPT !.n = n]      \* x or (a, b)
TArms(arms) == [Tok("arms") EXCEPT !.arms = arms]     \* { pattern => State [Output], .. }
TArrow == Tok("=>")
TIdent(id) == [Tok("ident") EXCEPT !.id = id]
TBracket(o) == [Tok("bracket") EXCEPT !.output = o]   \* [Output]

NoEntry == TransitionEntry(InputVariant(NoId, <<>>), NoGuard, NoId, NoOutput)

\* the result of a parse function: Ok(value) with the tokens left, or Err
ParseOk(entry, rest) == [ok |-> TRUE, entry |-> entry, rest |-> rest]
ParseErr == [ok |-> FALSE, entry |-> NoEntry, rest |-> <<>>]

Peek(ts, t) == ts # <<>> /\ Head(ts).t = t

\* Output::parse: a bracket group if one follows
Output_parse(ts, entry) ==
    IF Peek(ts, "bracket")
    THEN ParseOk([entry EXCEPT !.output = Head(ts).output], Tail(ts))
    ELSE ParseOk(entry, ts)

\* BindingGuard::parse: the bindings, then the braced arms
BindingGuard_parse(ts, entry) ==
    IF Peek(ts, "bindings") /\ Peek(Tail(ts), "arms")
    THEN ParseOk([entry EXCEPT !.guard = Binding(Head(ts).n, Head(Tail(ts)).arms)],
                 Tail(Tail(ts)))
    ELSE ParseErr

\* Guard::parse: `if` or `match`, then a closure if `|` follows and a
\* binding guard otherwise
Guard_parse(ts, entry) ==
    IF ~(Peek(ts, "if") \/ Peek(ts, "match")) THEN ParseErr
    ELSE IF Peek(Tail(ts), "closure")
    THEN ParseOk([entry EXCEPT !.guard = Closure(Head(Tail(ts)).expr)], Tail(Tail(ts)))
    ELSE BindingGuard_parse(Tail(ts), entry)

\* ps.parse::<Token![=>]>()?; ps.parse::<Ident>()?; ps.parse::<Output>()?
ArrowTarget_parse(ts, entry) ==
    IF Peek(ts, "=>") /\ Peek(Tail(ts), "ident")
    THEN Output_parse(Tail(Tail(ts)), [entry EXCEPT !.final_state = Head(Tail(ts)).id])
    ELSE ParseErr

\* the part of TransitionEntry::parse that follows the guard
AfterGuard_parse(r) ==
    IF ~r.ok THEN ParseErr
    ELSE IF r.entry.guard.kind = "binding" THEN r
    ELSE ArrowTarget_parse(r.rest, r.entry)

\* TransitionEntry::parse
TransitionEntry_parse(ts) ==
    IF ~Peek(ts, "input") THEN ParseErr
    ELSE IF Peek(Tail(ts), "if") \/ Peek(Tail(ts), "match")
    THEN AfterGuard_parse(Guard_parse(Tail(ts), [NoEntry EXCEPT !.input = Head(ts).input]))
    ELSE ArrowTarget_parse(Tail(ts), [NoEntry EXCEPT !.input = Head(ts).input])

\* let final_state = ps.parse()?  with final_state: Option<Ident>: the
\* identifier if one follows, None otherwise
OptionIdent_parse(ts, entry) ==
    IF Peek(ts, "ident")
    THEN ParseOk([entry EXCEPT !.final_state = Head(ts).id], Tail(ts))
    ELSE ParseOk(entry, ts)

\* TransitionDef::as_regular_transition: (Input) => State [Output]
as_regular_transition(ts) ==
    IF Peek(ts, "input") /\ Peek(Tail(ts), "=>")
    THEN LET r == OptionIdent_parse(Tail(Tail(ts)), [NoEntry EXCEPT !.input = Head(ts).input])
         IN  Output_parse(r.rest, r.entry)
    ELSE ParseErr

\* the text of a state block
BlockSource(initial_state, form, entries) ==
    [initial_state |-> initial_state, form |-> form, entries |-> entries]

\* one entry of a block, parsed by the function of the block's form; what
\* follows an entry must be `,` or the end
Entry_parse(form, ts) ==
    IF form = "regular" THEN as_regular_transition(ts) ELSE TransitionEntry_parse(ts)

\* TransitionDef::parse_transitions of every block
BlocksParse(blocks) ==
    [b \in DOMAIN blocks |->
        [n \in DOMAIN blocks[b].entries |-> Entry_parse(blocks[b].form, blocks[b].entries[n])]]

\* StateMachineDef::parse succeeds: every entry parses to its end, and a
\* block in the compact form has an entry
ParseSucceeds(blocks) ==
    \A b \in DOMAIN blocks :
        /\ blocks[b].entries # <<>>
        /\ \A n \in DOMAIN blocks[b].entries :
              /\ BlocksParse(blocks)[b][n].ok
              /\ BlocksParse(blocks)[b][n].rest = <<>>

\* the blocks of the parsed definition
ParsedBlocks(blocks) ==
    [b \in DOMAIN blocks |->
        TransitionDef(blocks[b].initial_state,
                      [n \in DOMAIN blocks[b].entries |-> BlocksParse(blocks)[b][n].entry])]

\* the text of a definition: machine(initial_state) and the state blocks
Source(initial_state, blocks) == [initial_state |-> initial_state, blocks |-> blocks]

\* no text: the definition is given parsed
NoSource == Source(NoId, <<>>)

(***************************************************************************)
(* The diagram renderer (cargo feature "diagram"; "pretty-print" formats   *)
(* the guards with prettyplease).  A diagram is the sequence of its lines. *)
(***************************************************************************)
\* Ord for Ident: the order in which a BTreeMap or a BTreeSet iterates
IdentOrder == <<"A", "B", "C", "Coin", "Divide", "Push">>

Rank(id) == CHOOSE n \in DOMAIN IdentOrder : IdentOrder[n] = id

KeyRank(key) == Rank(key[1]) * (Len(IdentOrder) + 1) + Rank(key[2])

RECURSIVE SortedIdents(_)
SortedIdents(S) ==
    IF S = {} THEN <<>>
    ELSE LET m == CHOOSE x \in S : \A y \in S : Rank(x) <= Rank(y)
         IN  <<m>> \o SortedIdents(S \ {m})

RECURSIVE SortedKeys(_)
SortedKeys(S) ==
    IF S = {} THEN <<>>
    ELSE LET m == CHOOSE x \in S : \A y \in S : KeyRank(x) <= KeyRank(y)
         IN  <<m>> \o SortedKeys(S \ {m})

\* the tokens of a guard expression: quote! { #expr } is one line, while
\* prettyplease::unparse puts the statements of a block body on lines of
\* their own
GuardText(expr, pretty) ==
    CASE expr.op = "ge" -> <<"|", "a", ":", "&", "u32", "|", "*", "a", ">=", ToString(expr.k)>>
      [] expr.op = "lt" -> <<"|", "a", ":", "&", "u32", "|", "*", "a", "<", ToString(expr.k)>>
      [] expr.op = "count_gt" -> <<"|", "|", "COUNT", ".", "load", "(", "Relaxed", ")", ">", "0">>
      [] expr.op = "matches" ->
            <<"|", "x", ":", "&", "u32", "|", "matches!", "(", "x", ",", "pattern", ")">>
      [] expr.op = "block_ge" ->
            IF pretty
            THEN <<"|", "a", ":", "&", "u32", "|", "{", "\n",
                   "let", "min", "=", ToString(expr.k), ";", "\n",
                   "*", "a", ">=", "min", "\n", "}">>
            ELSE <<"|", "a", ":", "&", "u32", "|", "{",
                   "let", "min", "=", ToString(expr.k), ";",
                   "*", "a", ">=", "min", "}">>

NotColon(t) == t # ":"

\* sanitize_expr: expr_str.replace(":", "")
sanitize_expr(expr, pretty) == SelectSeq(GuardText(expr, pretty), NotColon)

\* the nodes a line names: a state, the choice state <state>_guard_<input>,
\* the sub-state <input> inside the nested state, and the marker [*]
StateNode(s) == [t |-> "state", s |-> s, n |-> NoId]
ChoiceNode(s, n) == [t |-> "choice", s |-> s, n |-> n]
SubNode(s, n) == [t |-> "sub", s |-> s, n |-> n]
Marker == [t |-> "marker", s |-> NoId, n |-> NoId]

\* the lines:  from --> to label,  state X {,  },  state X <<choice>>
EdgeLine(from, to, label) == [k |-> "edge", from |-> from, to |-> to, label |-> label]
OpenLine(s) == [k |-> "open", from |-> StateNode(s), to |-> StateNode(s), label |-> <<>>]
CloseLine(s) == [k |-> "close", from |-> StateNode(s), to |-> StateNode(s), label |-> <<>>]
ChoiceLine(s, n) == [k |-> "choice", from |-> ChoiceNode(s, n), to |-> ChoiceNode(s, n), label |-> <<>>]

\* transitions_per_state[state] and transitions_by_state_input[(state, input)]
transitions_per_state(cs, s) ==
    LET Of(c) == c.initial_state = s IN SelectSeq(cs, Of)

transitions_by_state_input(cs, key) ==
    LET Of(c) == c.initial_state = key[1] /\ c.input_value.name = key[2] IN SelectSeq(cs, Of)

DiagramStates(cs) == {cs[k].initial_state : k \in DOMAIN cs}

DiagramKeys(cs) == {<<cs[k].initial_state, cs[k].input_value.name>> : k \in DOMAIN cs}

\* choice_states_generated requiring two guarded transitions of the pair
choice_states_two_guarded(cs) ==
    {key \in DiagramKeys(cs) :
        LET its == transitions_by_state_input(cs, key)
        IN  Cardinality({m \in DOMAIN its : its[m].guard_expr.op # "none"}) > 1}

\* choice_states_generated: has_guards && input_transitions.len() > 1
choice_states_generated(cs) ==
    {key \in DiagramKeys(cs) :
        LET its == transitions_by_state_input(cs, key)
        IN  /\ \E m \in DOMAIN its : its[m].guard_expr.op # "none"
            /\ Len(its) > 1}

\* self_loop_inputs of a state
self_loop_inputs(cs, s) ==
    {cs[k].input_value.name :
        k \in {n \in DOMAIN cs : cs[n].initial_state = s /\ cs[n].final_state = s}}

\* is_nested holding for a state with a single self-loop input too
is_nested_single(cs, s) == Cardinality(self_loop_inputs(cs, s)) > 0

\* let is_nested = self_loop_inputs.len() > 1
is_nested(cs, s) == Cardinality(self_loop_inputs(cs, s)) > 1

\* the lines inside one nested state, for its self-loop inputs ins
RECURSIVE NestedInputs(_, _, _)
NestedInputs(cs, s, ins) ==
    IF ins = <<>> THEN <<>>
    ELSE <<EdgeLine(Marker, SubNode(s, Head(ins)), <<>>),
           IF <<s, Head(ins)>> \in choice_states_generated(cs)
           THEN EdgeLine(SubNode(s, Head(ins)), ChoiceNode(s, Head(ins)), <<>>)
           ELSE EdgeLine(SubNode(s, Head(ins)), Marker, <<>>)>>
         \o NestedInputs(cs, s, Tail(ins))

\* "Second: generate nested state definitions"
RECURSIVE NestedStates(_, _)
NestedStates(cs, ss) ==
    IF ss = <<>> THEN <<>>
    ELSE (IF is_nested(cs, Head(ss))
          THEN <<OpenLine(Head(ss))>>
               \o NestedInputs(cs, Head(ss), SortedIdents(self_loop_inputs(cs, Head(ss))))
               \o <<CloseLine(Head(ss))>>
          ELSE <<>>)
         \o NestedStates(cs, Tail(ss))

\* "Third: generate choice states for inputs with guards"
ChoiceStates(cs) ==
    LET ks == SortedKeys(choice_states_generated(cs))
    IN  [m \in DOMAIN ks |-> ChoiceLine(ks[m][1], ks[m][2])]

\* the label of an edge that leaves a choice state
guard_label(c, pretty) ==
    IF c.guard_expr.op = "none" THEN <<>>
    ELSE <<":">> \o sanitize_expr(c.guard_expr, pretty)

\* GuardedEdges emitting the transitions of the pair in reverse order
GuardedEdgesRev(cs, key, pretty) ==
    LET its == transitions_by_state_input(cs, key)
    IN  [m \in DOMAIN its |->
            EdgeLine(ChoiceNode(key[1], key[2]), StateNode(its[Len(its) + 1 - m].final_state),
                     guard_label(its[Len(its) + 1 - m], pretty))]

\* "Generate transitions from choice state to final states"
GuardedEdges(cs, key, pretty) ==
    LET its == transitions_by_state_input(cs, key)
    IN  [m \in DOMAIN its |->
            EdgeLine(ChoiceNode(key[1], key[2]), StateNode(its[m].final_state),
                     guard_label(its[m], pretty))]

\* the label of a single self-loop: input name, fields and constant output
self_loop_label(c) ==
    <<":", c.input_value.name>>
        \o (IF c.input_value.fields # <<>> THEN <<"(">> \o c.input_value.fields \o <<")">> ELSE <<>>)
        \o (IF c.output.kind = "const" THEN <<"[", c.output.id, "]">> ELSE <<>>)

\* StateToChoice emitting the edge from the state in every case
StateToChoiceAlways(cs, s, n) == <<EdgeLine(StateNode(s), ChoiceNode(s, n), <<>>)>>

\* the edge from the state to the choice state: if !is_nested || !has_self_loop
StateToChoice(cs, s, n) ==
    IF ~is_nested(cs, s) \/ n \notin self_loop_inputs(cs, s)
    THEN <<EdgeLine(StateNode(s), ChoiceNode(s, n), <<>>)>>
    ELSE <<>>

\* the loop over the transitions ts of state s from index n on, processed
\* being the (state, input) pairs already handled
RECURSIVE StateEdges(_, _, _, _, _, _)
StateEdges(cs, s, ts, n, processed, pretty) ==
    IF n > Len(ts) THEN <<>>
    ELSE IF <<s, ts[n].input_value.name>> \in processed
    THEN StateEdges(cs, s, ts, n + 1, processed, pretty)
    ELSE IF <<s, ts[n].input_value.name>> \in choice_states_generated(cs)
    THEN StateToChoice(cs, s, ts[n].input_value.name)
         \o GuardedEdges(cs, <<s, ts[n].input_value.name>>, pretty)
         \o StateEdges(cs, s, ts, n + 1, processed \cup {<<s, ts[n].input_value.name>>}, pretty)
    ELSE IF ts[n].final_state # s
    THEN <<EdgeLine(StateNode(s), StateNode(ts[n].final_state), <<":", ts[n].input_value.name>>)>>
         \o StateEdges(cs, s, ts, n + 1, processed \cup {<<s, ts[n].input_value.name>>}, pretty)
    ELSE IF ~is_nested(cs, s)
    THEN <<EdgeLine(StateNode(s), StateNode(s), self_loop_label(ts[n]))>>
         \o StateEdges(cs, s, ts, n + 1, processed \cup {<<s, ts[n].input_value.name>>}, pretty)
    ELSE StateEdges(cs, s, ts, n + 1, processed, pretty)

\* "Second pass: generate transitions between states"
RECURSIVE Transitions(_, _, _)
Transitions(cs, ss, pretty) ==
    IF ss = <<>> THEN <<>>
    ELSE StateEdges(cs, Head(ss), transitions_per_state(cs, Head(ss)), 1, {}, pretty)
         \o Transitions(cs, Tail(ss), pretty)

\* rust-fsm-dsl diagram::build_diagram, up to the parse of the text
build_diagram(initial_state, cs, pretty) ==
    <<EdgeLine(Marker, StateNode(initial_state), <<>>)>>
        \o NestedStates(cs, SortedIdents(DiagramStates(cs)))
        \o ChoiceStates(cs)
        \o Transitions(cs, SortedIdents(DiagramStates(cs)), pretty)

\* nxt-fsm-dsl diagram::as_mermaid_guard: split_whitespace().join(" "), the
\* colons removed, in brackets
as_mermaid_guard(text) ==
    LET Kept(t) == t # ":" /\ t # "\n" IN <<"[">> \o SelectSeq(text, Kept) \o <<"]">>

\* nxt-fsm-dsl Transition::diagram: one line per Single transition or per
\* sub-transition, labelled with the event name and the guard or pattern
nxt_transition_diagram(a, pretty) ==
    IF a.entry.guard.kind = "binding"
    THEN [m \in DOMAIN a.entry.guard.arms |->
             EdgeLine(StateNode(a.parent_state), StateNode(a.entry.guard.arms[m].final_state),
                      <<":", a.entry.input.name>> \o as_mermaid_guard(<<"pattern">>))]
    ELSE <<EdgeLine(StateNode(a.parent_state), StateNode(a.entry.final_state),
                    <<":", a.entry.input.name>>
                        \o (IF a.entry.guard.kind = "closure"
                            THEN as_mermaid_guard(GuardText(a.entry.guard.expr, pretty))
                            ELSE <<>>))>>

RECURSIVE NxtTransitionLines(_, _)
NxtTransitionLines(as, pretty) ==
    IF as = <<>> THEN <<>>
    ELSE nxt_transition_diagram(Head(as), pretty) \o NxtTransitionLines(Tail(as), pretty)

\* nxt-fsm-dsl StateMachineDef::diagram, up to the parse of the text
nxt_diagram(d, pretty) ==
    <<EdgeLine(Marker, StateNode(d.initial_state), <<>>)>>
        \o NxtTransitionLines(NxtArms(d.blocks), pretty)

\* whether the tokens, scanned with depth open delimiters, are balanced
RECURSIVE Balanced(_, _)
Balanced(text, depth) ==
    IF text = <<>> THEN depth = 0
    ELSE IF Head(text) \in {"{", "(", "["} THEN Balanced(Tail(text), depth + 1)
    ELSE IF Head(text) \in {"}", ")", "]"}
    THEN depth > 0 /\ Balanced(Tail(text), depth - 1)
    ELSE Balanced(Tail(text), depth)

\* what of a label follows its first line break
RECURSIVE AfterBreak(_)
AfterBreak(text) ==
    IF text = <<>> THEN <<>>
    ELSE IF Head(text) = "\n" THEN Tail(text)
    ELSE AfterBreak(Tail(text))

\* diagram.parse::<TokenStream>(): every line starts with `///` and is a doc
\* comment up to its line break; what follows a break inside a label is lexed
\* as Rust tokens, which fails on an unbalanced delimiter
diagram_parses(lines) ==
    \A m \in DOMAIN lines : Balanced(AfterBreak(lines[m].label), 0)

\* no diagram: the feature is off or nothing was expanded
NoDiagram == [rendered |-> FALSE, lines |-> <<>>]

\* the text the renderer builds for definition d
Rendered(im, d, feat) ==
    IF "diagram" \notin feat THEN NoDiagram
    ELSE [rendered |-> TRUE,
          lines |-> IF im = "rust_fsm"
                    THEN build_diagram(d.initial_state, as_match_cases(d.blocks),
                                       "pretty-print" \in feat)
                    ELSE nxt_diagram(d, "pretty-print" \in feat)]

\* .expect("Mermaid diagram is invalid"): the macro panics when the text of
\* the diagram does not parse
RenderOk(im, d, feat) == diagram_parses(Rendered(im, d, feat).lines)

\* quote!(): the axis names an external type and no type is generated
NoImpl == [generated |-> FALSE, variants |-> {}]

\* pub enum State / Input / Output { variants }
Enum(variants) == [generated |-> TRUE, variants |-> variants]

\* nothing has been expanded
NoTypes == [input_impl |-> NoImpl, state_impl |-> NoImpl, output_impl |-> NoImpl]

\* states collecting the initial state and the source states only
states_without_targets(d, cs) == {d.initial_state} \cup {cs[k].initial_state : k \in DOMAIN cs}

\* rust-fsm-dsl: the sets the loop over the flat cases fills, `states` being
\* seeded with the initial state; inputs.entry(name).or_insert(fields) keeps
\* the fields of the first case naming the event
states(d, cs) ==
    {d.initial_state} \cup {cs[k].initial_state : k \in DOMAIN cs}
                      \cup {cs[k].final_state : k \in DOMAIN cs}

inputs(cs) ==
    {cs[k].input_value :
        k \in {n \in DOMAIN cs :
                  \A j \in 1..(n - 1) : cs[j].input_value.name # cs[n].input_value.name}}

\* outputs also collecting the closures of Call outputs
outputsWithCalls(cs) ==
    {cs[k].output.id : k \in {n \in DOMAIN cs : cs[n].output.kind = "const"}}
        \cup {cs[k].output.fn : k \in {n \in DOMAIN cs : cs[n].output.kind = "call"}}

outputs(cs) ==
    {cs[k].output.id : k \in {n \in DOMAIN cs : cs[n].output.kind = "const"}}

\* rust-fsm-dsl: (input_type, input_impl), (state_type, state_impl),
\* (output_type, output_impl)
rust_fsm_types(d, cs) ==
    [input_impl |-> IF d.input_type THEN NoImpl ELSE Enum(inputs(cs)),
     state_impl |-> IF d.state_type THEN NoImpl ELSE Enum(states(d, cs)),
     output_impl |-> IF d.output_type THEN NoImpl ELSE Enum(outputs(cs))]

\* nxt-fsm-dsl, trait UsedTypes: Output::as_const and Output::outputs
as_const(o) == IF o.kind = "const" THEN {o.id} ELSE {}

\* Transition::states / Transition::outputs, through SingleTransition,
\* MultipleTransition and SubTransition
Transition_states(e) ==
    IF e.guard.kind = "binding"
    THEN {e.guard.arms[m].final_state : m \in DOMAIN e.guard.arms}
    ELSE {e.final_state}

Transition_outputs(e) ==
    IF e.guard.kind = "binding"
    THEN UNION {as_const(e.guard.arms[m].output) : m \in DOMAIN e.guard.arms}
    ELSE as_const(e.output)

\* StateDef::states / StateDef::outputs
StateDef_states(b) ==
    {b.initial_state} \cup UNION {Transition_states(b.transitions[n]) : n \in DOMAIN b.transitions}

StateDef_outputs(b) ==
    UNION {Transition_outputs(b.transitions[n]) : n \in DOMAIN b.transitions}

\* the events of every Transition in declaration order
Events(d) == [n \in DOMAIN NxtArms(d.blocks) |-> NxtArms(d.blocks)[n].entry.input]

\* which of the events that are equal (Event::eq compares the names only) a
\* collect::<BTreeSet<_>>() retains: FromIterator does not promise one; an
\* insert loop keeps the first, the bulk build from the sorted Vec the last
KeepOrders == {"first", "last"}

\* flat_map(StateDef::inputs).collect::<BTreeSet<_>>()
collect_events(evs, keep) ==
    {evs[k] :
        k \in {n \in DOMAIN evs :
                  IF keep = "first"
                  THEN \A j \in 1..(n - 1) : evs[j].name # evs[n].name
                  ELSE \A j \in (n + 1)..Len(evs) : evs[j].name # evs[n].name}}

\* StateMachineDef::input_to_tokens
input_to_tokens(d, keep) ==
    IF d.input_type THEN NoImpl ELSE Enum(collect_events(Events(d), keep))

\* StateMachineDef::state_to_tokens
state_to_tokens(d) ==
    IF d.state_type THEN NoImpl
    ELSE Enum(UNION {StateDef_states(d.blocks[n]) : n \in DOMAIN d.blocks})

\* output_to_tokens skipping the synthesis when any axis is external
output_to_tokens_any(d) ==
    IF d.output_type \/ d.input_type \/ d.state_type THEN NoImpl
    ELSE Enum(UNION {StateDef_outputs(d.blocks[n]) : n \in DOMAIN d.blocks})

\* StateMachineDef::output_to_tokens
output_to_tokens(d) ==
    IF d.output_type THEN NoImpl
    ELSE Enum(UNION {StateDef_outputs(d.blocks[n]) : n \in DOMAIN d.blocks})

\* the types one expansion of the macro can generate
Synthesized(im, d) ==
    IF im = "rust_fsm"
    THEN {rust_fsm_types(d, as_match_cases(d.blocks))}
    ELSE {[input_impl |-> input_to_tokens(d, keep),
           state_impl |-> state_to_tokens(d),
           output_impl |-> output_to_tokens(d)] : keep \in KeepOrders}

\* whether the macro expands the definition: rust-fsm-dsl refuses a
\* definition without transitions and a block without entries, and panics on
\* a binding count that differs from the field count; nxt-fsm-dsl parses and
\* expands every definition
ExpandOk(im, d) ==
    im = "rust_fsm" =>
        /\ d.blocks # <<>>
        /\ \A n \in DOMAIN d.blocks : d.blocks[n].transitions # <<>>
        /\ \A e \in AllEntries(d) : BindingArityOk(e)
        /\ \A e \in AllEntries(d) : e.guard.kind # "binding" => e.final_state # NoId

\* whether the macro returns an expansion under the features feat
ExpandsWith(im, d, feat) == ExpandOk(im, d) /\ RenderOk(im, d, feat)

\* whether the macro expansion and the compilation of its output succeed;
\* ty are the types the expansion generated
BuildOk(im, d, ty) ==
    /\ ExpandOk(im, d)
    /\ im = "nxt" =>
          /\ \A e \in AllEntries(d) : NxtEntryCompiles(e)
          \* const INITIAL_STATE: Self::State = Self::State::#initial_state
          /\ (d.state_type \/ d.initial_state \in ty.state_impl.variants)

Queries == [s : States, i : Inputs]

\* no thread has been spawned
NoThreads ==
    /\ mutex = 0
    /\ pc = <<>>
    /\ local = <<>>
    /\ result = <<>>
    /\ order = <<>>

Init ==
    /\ impl \in Impls
    /\ features = {}
    /\ source = NoSource
    /\ def \in Defs
    /\ query \in Queries
    /\ phase = "parsed"
    /\ cases = <<>>
    /\ types = NoTypes
    /\ diagram = NoDiagram
    /\ state = NoId
    /\ COUNT = 0
    /\ last = NoCall
    /\ accepted = <<>>
    /\ NoThreads

\* state_machine!: expand the macro, compile, and create the machine in
\* INITIAL_STATE
Build ==
    /\ phase = "parsed"
    /\ \E ty \in Synthesized(impl, def) :
          IF ExpandsWith(impl, def, features) /\ BuildOk(impl, def, ty)
          THEN /\ phase' = "built"
               /\ cases' = IF impl = "rust_fsm" THEN as_match_cases(def.blocks) ELSE <<>>
               /\ types' = ty
               /\ diagram' = Rendered(impl, def, features)
               /\ state' = def.initial_state
          ELSE /\ phase' = "rejected"
               /\ types' = IF ExpandsWith(impl, def, features) THEN ty ELSE NoTypes
               /\ diagram' = IF ExpandsWith(impl, def, features)
                             THEN Rendered(impl, def, features) ELSE NoDiagram
               /\ UNCHANGED <<cases, state>>
    /\ UNCHANGED <<impl, features, source, def, query, COUNT, last, accepted>>
    /\ UNCHANGED tvars

\* the result of Impl::transition(&s, &i): the new state, the output computed
\* with it (nxt only), the counter afterwards and the closures invoked
TransitionCall(s, i, cnt, st) ==
    IF impl = "rust_fsm"
    THEN [state |-> transition(cases, s, i, cnt), out |-> NoOut, cnt |-> cnt,
          calls |-> <<Ev("transition", st)>> \o Rep(GuardEvals(cases, s, i, cnt), Ev("guard", st))]
    ELSE LET r == nxt_transition(def.blocks, s, i, cnt)
         IN  [state |-> r.state, out |-> r.out, cnt |-> r.cnt,
              calls |-> <<Ev("transition", st)>>
                        \o Rep(NxtGuardEvals(def.blocks, s, i, cnt), Ev("guard", st))]

\* the result of Impl::output(&s, &i) (rust-fsm only)
OutputCall(s, i, cnt, st) ==
    LET r == output(cases, s, i, cnt)
    IN  [out |-> r.out, cnt |-> r.cnt,
         calls |-> <<Ev("output", st)>>
                   \o Rep(GuardEvals(output_cases(cases), s, i, cnt), Ev("guard", st))]

\* a direct call of Impl::transition on the query
CallTransition ==
    /\ phase = "built"
    /\ LET r == TransitionCall(query.s, query.i, COUNT, state)
       IN  /\ r.cnt <= MaxCount
           /\ COUNT' = r.cnt
           /\ last' = [op |-> "transition", s |-> query.s, i |-> query.i, t |-> r.state,
                       o |-> r.out, err |-> FALSE, calls |-> r.calls, cnt0 |-> COUNT,
                       hook |-> <<>>]
    /\ UNCHANGED <<impl, features, source, def, query, phase, cases, types, diagram, state, accepted>>
    /\ UNCHANGED tvars

\* a direct call of Impl::output on the query
CallOutput ==
    /\ phase = "built"
    /\ impl = "rust_fsm"
    /\ LET r == OutputCall(query.s, query.i, COUNT, state)
       IN  /\ r.cnt <= MaxCount
           /\ COUNT' = r.cnt
           /\ last' = [op |-> "output", s |-> query.s, i |-> query.i, t |-> NoId,
                       o |-> r.out, err |-> FALSE, calls |-> r.calls, cnt0 |-> COUNT,
                       hook |-> <<>>]
    /\ UNCHANGED <<impl, features, source, def, query, phase, cases, types, diagram, state, accepted>>
    /\ UNCHANGED tvars

\* SMDefAttr::before_transition_to_tokens: the hook expression is called only
\* when the attribute is given; otherwise no code is generated
before_transition_to_tokens(d, st) ==
    IF d.before_transition THEN <<Ev("before_hook", st)>> ELSE <<>>

\* after_transition_to_tokens generating the before_transition function
after_transition_as_before(d, st) ==
    IF d.after_transition THEN <<[f |-> "before_hook", st |-> st]>> ELSE <<>>

\* SMDefAttr::after_transition_to_tokens
after_transition_to_tokens(d, st) ==
    IF d.after_transition THEN <<Ev("after_hook", st)>> ELSE <<>>

\* the generated after_transition with its first and third argument exchanged
after_transition_swapped(d, pre_state, input, st, out) ==
    IF d.after_transition
    THEN <<[pre_state |-> st, input |-> input, state |-> pre_state, output |-> out]>>
    ELSE <<>>

\* the generated fn after_transition(pre_state, input, state, output): the
\* arguments the user's hook expression receives; no call when not configured
after_transition(d, pre_state, input, st, out) ==
    IF d.after_transition
    THEN <<[pre_state |-> pre_state, input |-> input, state |-> st, output |-> out]>>
    ELSE <<>>

\* the output of a matched consume, t being the result of transition:
\* rust-fsm calls output(), nxt-fsm got it from transition()
ConsumeOutput(i, cur, t) ==
    IF impl = "rust_fsm" THEN OutputCall(cur, i, t.cnt, cur)
    ELSE [out |-> t.out, cnt |-> t.cnt, calls |-> <<>>]

\* a matched consume: the new state is stored, then the after hook runs
ConsumeMatched(i, cur, b, t, o, a) ==
    [state |-> t.state, out |-> o.out, err |-> FALSE, cnt |-> o.cnt, t |-> t.state,
     calls |-> b \o t.calls \o o.calls \o a,
     hook |-> after_transition(def, cur, i, t.state, o.out)]

\* a rejected consume: TransitionImpossibleError, the state is kept
ConsumeRejected(cur, b, t) ==
    [state |-> cur, out |-> NoOut, err |-> TRUE, cnt |-> t.cnt, t |-> NoId,
     calls |-> b \o t.calls, hook |-> <<>>]

\* consume once the before hook has run (log b) and transition returned t
ConsumeAfterTransition(i, cur, b, t) ==
    IF t.state = NoId THEN ConsumeRejected(cur, b, t)
    ELSE ConsumeMatched(i, cur, b, t, ConsumeOutput(i, cur, t),
                        after_transition_to_tokens(def, t.state))

\* consume that computes the transition but never stores the new state
ConsumeCallNoUpdate(i, cur, cnt) ==
    [ConsumeAfterTransition(i, cur, before_transition_to_tokens(def, cur),
                            TransitionCall(cur, i, cnt, cur)) EXCEPT !.state = cur]

\* StateMachine::consume of the runtime wrapper: before hook, transition and
\* output, and on a match the state update followed by the after hook
ConsumeCall(i, cur, cnt) ==
    ConsumeAfterTransition(i, cur, before_transition_to_tokens(def, cur),
                           TransitionCall(cur, i, cnt, cur))

ConsumeStep(i) ==
    /\ phase = "built"
    /\ \E r \in {ConsumeCall(i, state, COUNT)} :
          /\ r.cnt <= MaxCount
          /\ state' = r.state
          /\ COUNT' = r.cnt
          /\ last' = [op |-> "consume", s |-> state, i |-> i, t |-> r.t, o |-> r.out,
                      err |-> r.err, calls |-> r.calls, cnt0 |-> COUNT, hook |-> r.hook]
    /\ UNCHANGED <<impl, features, source, def, query, phase, cases, types, diagram>>
    /\ UNCHANGED tvars

\* machine.consume(&i)
Consume(i) == ConsumeStep(i) /\ UNCHANGED accepted

\* machine.consume(&i), the caller keeping the inputs the machine accepted
\* together with the value COUNT had when each was consumed
ConsumeLogged(i) ==
    /\ Len(accepted) < MaxHist
    /\ ConsumeStep(i)
    /\ accepted' = IF last'.err THEN accepted
                   ELSE Append(accepted, [i |-> i, cnt |-> COUNT])

\* the dispatch functions of every definition, called on every query
Next ==
    \/ Build
    \/ CallTransition
    \/ CallOutput

Spec == Init /\ [][Next]_vars

(***************************************************************************)
(* The machines run through the runtime wrapper.                           *)
(***************************************************************************)
RunEntries ==
    { \* Push => B [|| inc_o2()], Coin(u32) if |a| *a >= 1 => B
      <<TransitionEntry(Push, NoGuard, "B", Call("inc_o2")),
        TransitionEntry(Coin, Closure(GeExpr(1)), "B", NoOutput)>>,
      \* Push if || COUNT.load(Relaxed) > 0 => C, Push => B [|| inc_o2()]
      <<TransitionEntry(Push, Closure(CountGt0), "C", NoOutput),
        TransitionEntry(Push, NoGuard, "B", Call("inc_o2"))>>,
      \* Coin(u32) match x { 1 => B, _ => A [OutA] }
      <<TransitionEntry(Coin, Binding(1, <<MatchArm(PTuple(<<PLit(1)>>), "B", NoOutput),
                                           MatchArm(PWild, "A", Constant("OutA"))>>),
                        NoId, NoOutput)>>,
      \* Coin(u32) if |a| *a >= 1 => B, Coin(u32) if |a| *a >= 2 => C [OutB]
      <<TransitionEntry(Coin, Closure(GeExpr(1)), "B", NoOutput),
        TransitionEntry(Coin, Closure(GeExpr(2)), "C", Constant("OutB"))>>,
      \* Coin(u32) match x { 0..2 => B [OutA] }, Coin(u32) => A [|a| a + 1]
      <<TransitionEntry(Coin, Binding(1, <<MatchArm(PTuple(<<PRange(0, 2)>>), "B", Constant("OutA"))>>),
                        NoId, NoOutput),
        TransitionEntry(Coin, NoGuard, "A", Call("succ"))>> }

RunDefs ==
    {StateMachineDef("A", <<TransitionDef("A", es), TailBlock>>, b, a) :
        es \in RunEntries, b \in BOOLEAN, a \in BOOLEAN}

InitRun ==
    /\ impl \in Impls
    /\ features = {}
    /\ source = NoSource
    /\ def \in RunDefs
    /\ query \in Queries
    /\ phase = "parsed"
    /\ cases = <<>>
    /\ types = NoTypes
    /\ diagram = NoDiagram
    /\ state = NoId
    /\ COUNT = 0
    /\ last = NoCall
    /\ accepted = <<>>
    /\ NoThreads

NextRun ==
    \/ Build
    \/ CallTransition
    \/ CallOutput
    \/ \E i \in Inputs : Consume(i)

SpecRun == InitRun /\ [][NextRun]_vars

(***************************************************************************)
(* Sequences of inputs fed to one machine, the accepted ones being kept.   *)
(***************************************************************************)
InitFold ==
    /\ impl \in Impls
    /\ features = {}
    /\ source = NoSource
    /\ def \in {d \in RunDefs : ~d.before_transition /\ ~d.after_transition}
    /\ query = [s |-> "A", i |-> InputVal("Push", <<>>)]
    /\ phase = "parsed"
    /\ cases = <<>>
    /\ types = NoTypes
    /\ diagram = NoDiagram
    /\ state = NoId
    /\ COUNT = 0
    /\ last = NoCall
    /\ accepted = <<>>
    /\ NoThreads

NextFold ==
    \/ Build
    \/ \E i \in Inputs : ConsumeLogged(i)

SpecFold == InitFold /\ [][NextFold]_vars

(***************************************************************************)
(* Threads sharing one machine behind Arc<Mutex<StateMachine>>: each       *)
(* thread locks, consumes one input and drops the guard.                   *)
(***************************************************************************)
Threads == 1..NThreads

\* what consume returned to a thread that has not called it yet
NoConsume ==
    [state |-> NoId, out |-> NoOut, err |-> FALSE, cnt |-> 0, t |-> NoId,
     calls |-> <<>>, hook |-> <<>>]

\* Mutex with every lock() succeeding at once
MutexAlwaysFree(m) == TRUE

\* Mutex::lock returns only while no guard is alive
MutexFree(m) == m = 0

InitThreads ==
    /\ impl \in Impls
    /\ features = {}
    /\ source = NoSource
    /\ def \in {d \in RunDefs : ~d.before_transition /\ ~d.after_transition}
    /\ query = [s |-> "A", i |-> InputVal("Push", <<>>)]
    /\ phase = "parsed"
    /\ cases = <<>>
    /\ types = NoTypes
    /\ diagram = NoDiagram
    /\ state = NoId
    /\ COUNT = 0
    /\ last = NoCall
    /\ accepted = <<>>
    /\ mutex = 0
    /\ pc = [t \in Threads |-> "start"]
    /\ local \in {[t \in Threads |-> [i |-> f[t], seen |-> NoId, r |-> NoConsume]] :
                      f \in [Threads -> Inputs]}
    /\ result = [t \in Threads |-> [done |-> FALSE, out |-> NoOut, err |-> FALSE]]
    /\ order = <<>>

\* let mut lock = machine.lock().unwrap();
Lock(t) ==
    /\ phase = "built"
    /\ pc[t] = "start"
    /\ MutexFree(mutex)
    /\ mutex' = t
    /\ pc' = [pc EXCEPT ![t] = "locked"]
    /\ order' = Append(order, t)
    /\ UNCHANGED <<impl, features, source, def, query, phase, cases, types, diagram, state, COUNT, last, accepted, local, result>>

\* lock.consume(&input), first half: the current state is read and the
\* hooks and dispatch functions are evaluated on it
ThreadCompute(t) ==
    /\ pc[t] = "locked"
    /\ local' = [local EXCEPT ![t] = [i |-> local[t].i, seen |-> state,
                                      r |-> ConsumeCall(local[t].i, state, COUNT)]]
    /\ pc' = [pc EXCEPT ![t] = "computed"]
    /\ UNCHANGED <<impl, features, source, def, query, phase, cases, types, diagram, state, COUNT, last, accepted,
                   mutex, result, order>>

\* lock.consume(&input), second half: the state is stored and the result
\* returned
ThreadStore(t) ==
    /\ pc[t] = "computed"
    /\ state' = local[t].r.state
    /\ COUNT' = local[t].r.cnt
    /\ result' = [result EXCEPT ![t] = [done |-> TRUE, out |-> local[t].r.out,
                                        err |-> local[t].r.err]]
    /\ last' = [op |-> "consume", s |-> local[t].seen, i |-> local[t].i,
                t |-> local[t].r.t, o |-> local[t].r.out, err |-> local[t].r.err,
                calls |-> local[t].r.calls, cnt0 |-> COUNT, hook |-> local[t].r.hook]
    /\ pc' = [pc EXCEPT ![t] = "stored"]
    /\ UNCHANGED <<impl, features, source, def, query, phase, cases, types, diagram, accepted, mutex, local, order>>

\* the guard goes out of scope
Unlock(t) ==
    /\ pc[t] = "stored"
    /\ mutex' = 0
    /\ pc' = [pc EXCEPT ![t] = "done"]
    /\ UNCHANGED <<impl, features, source, def, query, phase, cases, types, diagram, state, COUNT, last, accepted,
                   local, result, order>>

NextThreads ==
    \/ Build
    \/ \E t \in Threads : Lock(t)
    \/ \E t \in Threads : ThreadCompute(t)
    \/ \E t \in Threads : ThreadStore(t)
    \/ \E t \in Threads : Unlock(t)

SpecThreads == InitThreads /\ [][NextThreads]_vars

(***************************************************************************)
(* The calculator of tests/output.rs: A plays Idle, B plays ErrS, OutB     *)
(* plays ErrDiv0, and B(Push) => A plays ErrS(Reset) => Idle.  Every       *)
(* definition sends a zero divisor to B before its call can divide.        *)
(***************************************************************************)
Divide == InputVariant("Divide", <<"i32", "i32">>)

CalcEntries ==
    { \* Divide(i32, i32) match (a, b) { (_, 0) => B [OutB],
      \*                                 (__arg0, __arg1) => A [|x, y| Result(x / y)] }
      TransitionEntry(Divide,
          Binding(2, <<MatchArm(PTuple(<<PAny, PLit(0)>>), "B", Constant("OutB")),
                       MatchArm(PTuple(<<PBind(0), PBind(1)>>), "A", Call("div"))>>),
          NoId, NoOutput),
      \* Divide(i32, i32) match (a, b) { (0, _) => B [OutB], (_, 0) => B [OutB],
      \*                                 (__arg1, __arg0) => A [|x, y| Result(x / y)] }
      TransitionEntry(Divide,
          Binding(2, <<MatchArm(PTuple(<<PLit(0), PAny>>), "B", Constant("OutB")),
                       MatchArm(PTuple(<<PAny, PLit(0)>>), "B", Constant("OutB")),
                       MatchArm(PTuple(<<PBind(1), PBind(0)>>), "A", Call("div"))>>),
          NoId, NoOutput),
      \* Divide(i32, i32) match (a, b) { (_, 0) => B [OutB], (__arg0, __arg1) => A }
      TransitionEntry(Divide,
          Binding(2, <<MatchArm(PTuple(<<PAny, PLit(0)>>), "B", Constant("OutB")),
                       MatchArm(PTuple(<<PBind(0), PBind(1)>>), "A", NoOutput)>>),
          NoId, NoOutput) }

CalcDefs ==
    {StateMachineDef("A", <<TransitionDef("A", <<e>>), TailBlock>>, FALSE, FALSE) :
        e \in CalcEntries}

CalcInputs == {InputVal("Divide", <<x, y>>) : x, y \in Vals} \cup {InputVal("Push", <<>>)}

InitCalc ==
    /\ impl \in Impls
    /\ features = {}
    /\ source = NoSource
    /\ def \in CalcDefs
    /\ query \in [s : {"A", "B"}, i : CalcInputs]
    /\ phase = "parsed"
    /\ cases = <<>>
    /\ types = NoTypes
    /\ diagram = NoDiagram
    /\ state = NoId
    /\ COUNT = 0
    /\ last = NoCall
    /\ accepted = <<>>
    /\ NoThreads

NextCalc ==
    \/ Build
    \/ CallTransition
    \/ CallOutput

SpecCalc == InitCalc /\ [][NextCalc]_vars

(***************************************************************************)
(* Definitions that exercise the alphabet builder and the build-time       *)
(* checks: an initial state no block mentions, one event name with two     *)
(* field-type lists, call outputs, external types, a block without         *)
(* entries, and binding guards without arms or with a wrong binding count. *)
(***************************************************************************)
Coin64 == InputVariant("Coin", <<"u64">>)

TypeBlocks ==
    { \* no state block at all
      <<>>,
      \* A(Push) => B [OutA], B(Push) => A
      <<TransitionDef("A", <<TransitionEntry(Push, NoGuard, "B", Constant("OutA"))>>),
        TransitionDef("B", <<TransitionEntry(Push, NoGuard, "A", NoOutput)>>)>>,
      \* A(Coin(u32)) => B, B(Coin(u64)) => A [OutB]
      <<TransitionDef("A", <<TransitionEntry(Coin, NoGuard, "B", NoOutput)>>),
        TransitionDef("B", <<TransitionEntry(Coin64, NoGuard, "A", Constant("OutB"))>>)>>,
      \* A => { Push => B [|| inc_o2()], Coin(u32) => A [|a| ..] }, B(Push) => A [OutA]
      <<TransitionDef("A", <<TransitionEntry(Push, NoGuard, "B", Call("inc_o2")),
                             TransitionEntry(Coin, NoGuard, "A", Call("succ"))>>),
        TailBlock>>,
      \* A => { Push => B }, C => { Coin(u32) match x { } }
      <<TransitionDef("A", <<TransitionEntry(Push, NoGuard, "B", NoOutput)>>),
        TransitionDef("C", <<TransitionEntry(Coin, Binding(1, <<>>), NoId, NoOutput)>>)>>,
      \* A(Push) => B, B => { }
      <<TransitionDef("A", <<TransitionEntry(Push, NoGuard, "B", NoOutput)>>),
        TransitionDef("B", <<>>)>>,
      \* A => { Push => B, Coin(u32) match (a, b) { } }
      <<TransitionDef("A", <<TransitionEntry(Push, NoGuard, "B", NoOutput),
                             TransitionEntry(Coin, Binding(2, <<>>), NoId, NoOutput)>>)>>,
      \* A => { Push => B, Coin(u32) match (a, b) { _ => B [OutA] } }
      <<TransitionDef("A", <<TransitionEntry(Push, NoGuard, "B", NoOutput),
                             TransitionEntry(Coin, Binding(2, <<MatchArm(PWild, "B", Constant("OutA"))>>),
                                             NoId, NoOutput)>>)>>,
      \* A => { Coin(u32) match x { _ => B [OutA] } }, B(Push) => A [OutA]
      <<TransitionDef("A", <<TransitionEntry(Coin, Binding(1, <<MatchArm(PWild, "B", Constant("OutA"))>>),
                                             NoId, NoOutput)>>),
        TailBlock>> }

\* #[state_machine(input(..), state(..), output(..))]
WithTypes(d, input_type, state_type, output_type) ==
    [d EXCEPT !.input_type = input_type, !.state_type = state_type,
              !.output_type = output_type]

TypeDefs ==
    {WithTypes(StateMachineDef(init, blocks, FALSE, FALSE), i, s, o) :
        init \in {"A", "C"}, blocks \in TypeBlocks, i \in BOOLEAN, s \in BOOLEAN, o \in BOOLEAN}

InitTypes ==
    /\ impl \in Impls
    /\ features = {}
    /\ source = NoSource
    /\ def \in TypeDefs
    /\ query \in [s : {"A", "B"}, i : {InputVal("Push", <<>>), InputVal("Coin", <<1>>)}]
    /\ phase = "parsed"
    /\ cases = <<>>
    /\ types = NoTypes
    /\ diagram = NoDiagram
    /\ state = NoId
    /\ COUNT = 0
    /\ last = NoCall
    /\ accepted = <<>>
    /\ NoThreads

SpecTypes == InitTypes /\ [][Next]_vars

(***************************************************************************)
(* Definitions that exercise the diagram renderer: pairs with two guarded  *)
(* cases, a guarded case followed by an unguarded one, states with two     *)
(* self-loop inputs, two unguarded cases of one pair, and a guard whose    *)
(* closure has a block body.                                               *)
(***************************************************************************)
DiagramBlocks ==
    { \* A => { Coin(u32) if |a| *a >= 1 => B, Coin(u32) if |a| *a < 1 => C }, B(Push) => A [OutA]
      <<TransitionDef("A", <<TransitionEntry(Coin, Closure(GeExpr(1)), "B", NoOutput),
                             TransitionEntry(Coin, Closure(LtExpr(1)), "C", NoOutput)>>),
        TailBlock>>,
      \* A => { Coin(u32) if |a| *a >= 1 => B [OutB], Coin(u32) => A }, B(Push) => A [OutA]
      <<TransitionDef("A", <<TransitionEntry(Coin, Closure(GeExpr(1)), "B", Constant("OutB")),
                             TransitionEntry(Coin, NoGuard, "A", NoOutput)>>),
        TailBlock>>,
      \* A => { Push => A, Coin(u32) if |a| *a >= 1 => A, Coin(u32) if |a| *a < 1 => B }
      <<TransitionDef("A", <<TransitionEntry(Push, NoGuard, "A", NoOutput),
                             TransitionEntry(Coin, Closure(GeExpr(1)), "A", NoOutput),
                             TransitionEntry(Coin, Closure(LtExpr(1)), "B", NoOutput)>>)>>,
      \* A => { Push => B, Push => C }, B(Push) => A [OutA]
      <<TransitionDef("A", <<TransitionEntry(Push, NoGuard, "B", NoOutput),
                             TransitionEntry(Push, NoGuard, "C", NoOutput)>>),
        TailBlock>>,
      \* A => { Coin(u32) if |a| { let min = 1; *a >= min } => B, Coin(u32) if |a| *a < 1 => A }
      <<TransitionDef("A", <<TransitionEntry(Coin, Closure(BlockGeExpr(1)), "B", NoOutput),
                             TransitionEntry(Coin, Closure(LtExpr(1)), "A", NoOutput)>>)>>,
      \* A => { Push => A [OutA], Coin(u32) => A }, B(Push) => A [OutA]
      <<TransitionDef("A", <<TransitionEntry(Push, NoGuard, "A", Constant("OutA")),
                             TransitionEntry(Coin, NoGuard, "A", NoOutput)>>),
        TailBlock>>,
      \* A => { Coin(u32) => A, Divide(i32, i32) => A,
      \*        Push if || COUNT.load(Relaxed) > 0 => B, Push => C }
      <<TransitionDef("A", <<TransitionEntry(Coin, NoGuard, "A", NoOutput),
                             TransitionEntry(InputVariant("Divide", <<"i32", "i32">>), NoGuard, "A", NoOutput),
                             TransitionEntry(Push, Closure(CountGt0), "B", NoOutput),
                             TransitionEntry(Push, NoGuard, "C", NoOutput)>>)>>,
      \* A => { Coin(u32) if |a| { let min = 1; *a >= min } => B, Push => A [OutA] }
      <<TransitionDef("A", <<TransitionEntry(Coin, Closure(BlockGeExpr(1)), "B", NoOutput),
                             TransitionEntry(Push, NoGuard, "A", Constant("OutA"))>>)>>,
      \* A => { Coin(u32) match x { 0 => B, _ => C [OutB] } }, B(Push) => A [OutA]
      <<TransitionDef("A", <<TransitionEntry(Coin, Binding(1, <<MatchArm(PTuple(<<PLit(0)>>), "B", NoOutput),
                                                               MatchArm(PWild, "C", Constant("OutB"))>>),
                                             NoId, NoOutput)>>),
        TailBlock>>,
      \* A => { Coin(u32) if |a| *a >= 2 => B, Coin(u32) if |a| *a >= 1 => C, Coin(u32) => A }
      <<TransitionDef("A", <<TransitionEntry(Coin, Closure(GeExpr(2)), "B", NoOutput),
                             TransitionEntry(Coin, Closure(GeExpr(1)), "C", NoOutput),
                             TransitionEntry(Coin, NoGuard, "A", NoOutput)>>)>>,
      \* A => { Push => A, Push => B }, B(Push) => A [OutA]
      <<TransitionDef("A", <<TransitionEntry(Push, NoGuard, "A", NoOutput),
                             TransitionEntry(Push, NoGuard, "B", NoOutput)>>),
        TailBlock>> }

DiagramDefs == {StateMachineDef("A", blocks, FALSE, FALSE) : blocks \in DiagramBlocks}

\* the cargo features of the build
FeatureSets == {{}, {"diagram"}, {"diagram", "pretty-print"}}

InitDiagram ==
    /\ impl \in Impls
    /\ features \in FeatureSets
    /\ source = NoSource
    /\ def \in DiagramDefs
    /\ query \in [s : {"A", "B"}, i : {InputVal("Push", <<>>), InputVal("Coin", <<0>>),
                                      InputVal("Coin", <<1>>)}]
    /\ phase = "parsed"
    /\ cases = <<>>
    /\ types = NoTypes
    /\ diagram = NoDiagram
    /\ state = NoId
    /\ COUNT = 0
    /\ last = NoCall
    /\ accepted = <<>>
    /\ NoThreads

SpecDiagram == InitDiagram /\ [][Next]_vars

(***************************************************************************)
(* Definitions given as text and parsed by rust-fsm-dsl: entries with and  *)
(* without guard, target and output, in the compact and the regular form.  *)
(***************************************************************************)
SomeArms == <<MatchArm(PTuple(<<PLit(1)>>), "B", NoOutput), MatchArm(PWild, "A", Constant("OutA"))>>

EntryTexts ==
    { \* Push => B
      <<TInput(Push), TArrow, TIdent("B")>>,
      \* Push => B [OutA]
      <<TInput(Push), TArrow, TIdent("B"), TBracket(Constant("OutA"))>>,
      \* Coin(u32) if |a| *a >= 1 => B
      <<TInput(Coin), TIf, TClosure(GeExpr(1)), TArrow, TIdent("B")>>,
      \* Coin(u32) match |a| *a >= 1 => B [OutB]
      <<TInput(Coin), TMatch, TClosure(GeExpr(1)), TArrow, TIdent("B"), TBracket(Constant("OutB"))>>,
      \* Coin(u32) match x { 1 => B, _ => A [OutA] }
      <<TInput(Coin), TMatch, TBindings(1), TArms(SomeArms)>>,
      \* Coin(u32) if x { 1 => B, _ => A [OutA] }
      <<TInput(Coin), TIf, TBindings(1), TArms(SomeArms)>>,
      \* Coin(u32) match x { 1 => B, _ => A [OutA] } => B
      <<TInput(Coin), TMatch, TBindings(1), TArms(SomeArms), TArrow, TIdent("B")>>,
      \* Coin(u32) match x { 1 => B, _ => A [OutA] } [OutB]
      <<TInput(Coin), TMatch, TBindings(1), TArms(SomeArms), TBracket(Constant("OutB"))>>,
      \* Push
      <<TInput(Push)>>,
      \* Coin(u32) if |a| *a >= 1
      <<TInput(Coin), TIf, TClosure(GeExpr(1))>>,
      \* Push =>
      <<TInput(Push), TArrow>>,
      \* Push => [OutA]
      <<TInput(Push), TArrow, TBracket(Constant("OutA"))>> }

\* B(Push) => A [OutA]
TailSource ==
    BlockSource("B", "regular", <<<<TInput(Push), TArrow, TIdent("A"), TBracket(Constant("OutA"))>>>>)

Sources ==
    {Source("A", <<BlockSource("A", form, <<e>>), TailSource>>) :
        form \in {"regular", "compact"}, e \in EntryTexts}
    \cup {Source("A", <<BlockSource("A", "compact", <<<<TInput(Push), TArrow, TIdent("B")>>, e>>),
                        TailSource>>) : e \in EntryTexts}
    \cup {Source("A", <<BlockSource("A", "compact", <<>>), TailSource>>)}

\* nothing is parsed yet
NoDef == StateMachineDef(NoId, <<>>, FALSE, FALSE)

InitParse ==
    /\ impl = "rust_fsm"
    /\ features = {}
    /\ source \in Sources
    /\ def = NoDef
    /\ query \in [s : {"A", "B"}, i : {InputVal("Push", <<>>), InputVal("Coin", <<1>>)}]
    /\ phase = "source"
    /\ cases = <<>>
    /\ types = NoTypes
    /\ diagram = NoDiagram
    /\ state = NoId
    /\ COUNT = 0
    /\ last = NoCall
    /\ accepted = <<>>
    /\ NoThreads

\* StateMachineDef::parse: the definition, or a parse error
ParseDef ==
    /\ phase = "source"
    /\ IF ParseSucceeds(source.blocks)
       THEN /\ phase' = "parsed"
            /\ def' = StateMachineDef(source.initial_state, ParsedBlocks(source.blocks), FALSE, FALSE)
       ELSE /\ phase' = "parse_error"
            /\ def' = def
    /\ UNCHANGED <<impl, features, source, query, cases, types, diagram, state, COUNT, last, accepted>>
    /\ UNCHANGED tvars

NextParse ==
    \/ ParseDef
    \/ Build
    \/ CallTransition
    \/ CallOutput

SpecParse == InitParse /\ [][NextParse]_vars

(***************************************************************************)
(* Machines whose closure-guarded cases carry an output, driven through    *)
(* consume.                                                                *)
(***************************************************************************)
GuardedOutputEntries ==
    { \* Coin(u32) if |a| *a >= 1 => B [OutB]
      <<TransitionEntry(Coin, Closure(GeExpr(1)), "B", Constant("OutB"))>>,
      \* Coin(u32) if |a| *a >= 1 => B [OutB], Coin(u32) => A
      <<TransitionEntry(Coin, Closure(GeExpr(1)), "B", Constant("OutB")),
        TransitionEntry(Coin, NoGuard, "A", NoOutput)>>,
      \* Coin(u32) if |a| *a >= 2 => C, Coin(u32) if |a| *a >= 1 => B [|a| a + 1]
      <<TransitionEntry(Coin, Closure(GeExpr(2)), "C", NoOutput),
        TransitionEntry(Coin, Closure(GeExpr(1)), "B", Call("succ"))>>,
      \* Coin(u32) if |a| *a >= 1 => B, Push => A [OutA]
      <<TransitionEntry(Coin, Closure(GeExpr(1)), "B", NoOutput),
        TransitionEntry(Push, NoGuard, "A", Constant("OutA"))>> }

GuardedOutputDefs ==
    {StateMachineDef("A", <<TransitionDef("A", es), TailBlock>>, b, a) :
        es \in GuardedOutputEntries, b \in BOOLEAN, a \in BOOLEAN}

InitGuards ==
    /\ impl \in Impls
    /\ features = {}
    /\ source = NoSource
    /\ def \in GuardedOutputDefs
    /\ query \in Queries
    /\ phase = "parsed"
    /\ cases = <<>>
    /\ types = NoTypes
    /\ diagram = NoDiagram
    /\ state = NoId
    /\ COUNT = 0
    /\ last = NoCall
    /\ accepted = <<>>
    /\ NoThreads

SpecGuards == InitGuards /\ [][NextRun]_vars

(***************************************************************************)
(* Properties.                                                             *)
(***************************************************************************)
\* the TransitionCase list of the definition
FlatCases == as_match_cases(def.blocks)

\* a case is a candidate for (s, i) when its source state is s, its event
\* name is i's and its guard is absent or true on i's field values
Applies(c, s, i, cnt) ==
    /\ c.initial_state = s
    /\ c.input_value.name = i.name
    /\ (c.guard_expr.op = "none" \/ EvalGuard(c.guard_expr, i.args, cnt))

Candidates(s, i, cnt) == {k \in 1..Len(FlatCases) : Applies(FlatCases[k], s, i, cnt)}

Earliest(S) == CHOOSE k \in S : \A j \in S : k <= j

\* the candidates of the call recorded in last
LastCandidates == Candidates(last.s, last.i, last.cnt0)

\* C1: transition(s, i) is the target of the earliest-declared case whose
\* source state is s, whose event name is i's and whose guard is absent or
\* true; it is no-transition when there is no such case.
C1_FirstMatchWins ==
    last.op = "transition" =>
        last.t = IF LastCandidates = {} THEN NoId
                 ELSE FlatCases[Earliest(LastCandidates)].final_state

\* two guarded cases with different targets are both true, and the first won
C1_Witness ==
    /\ last.op = "transition"
    /\ \E j, k \in LastCandidates :
          /\ j < k
          /\ FlatCases[j].guard_expr.op # "none"
          /\ FlatCases[k].guard_expr.op # "none"
          /\ FlatCases[j].final_state # FlatCases[k].final_state
          /\ j = Earliest(LastCandidates)
          /\ last.t = FlatCases[j].final_state

\* the output the case deciding transition(s, i) carries
DecidingOutput(s, i, cnt) ==
    LET M == Candidates(s, i, cnt)
    IN  IF M = {} THEN NoOut
        ELSE LET spec == FlatCases[Earliest(M)].output
             IN  CASE spec.kind = "none" -> NoOut
                   [] spec.kind = "const" -> ConstOut(spec.id)
                   [] spec.kind = "call" -> EvalCall(spec.fn, i.args, cnt).out

\* C2: output(s, i) is decided by the same case that decides
\* transition(s, i): that case's output, and no output when it has none.
C2_OutputOfDecidingCase ==
    /\ last.op = "output" => last.o = DecidingOutput(last.s, last.i, last.cnt0)
    /\ last.op = "transition" /\ impl = "nxt" =>
            last.o = DecidingOutput(last.s, last.i, last.cnt0)

\* C3: when no case applies to (s, i), transition returns no-transition and
\* output returns no output; output is never present when transition is absent.
C3_NoMatchNoOutput ==
    /\ last.op = "transition" /\ LastCandidates = {} => last.t = NoId /\ last.o = NoOut
    /\ last.op = "output" /\ LastCandidates = {} => last.o = NoOut
    /\ last.op = "output" /\ transition(cases, last.s, last.i, last.cnt0) = NoId =>
            last.o = NoOut

\* output was asked for a (state, input) whose only case with an output has a
\* false guard
C3_Witness ==
    /\ last.op = "output"
    /\ LastCandidates = {}
    /\ \E k \in 1..Len(FlatCases) :
          /\ FlatCases[k].initial_state = last.s
          /\ FlatCases[k].input_value.name = last.i.name
          /\ FlatCases[k].output.kind # "none"
    /\ last.o = NoOut

\* the positions <<block, entry>> of the definition's entries
Positions ==
    UNION {{<<b, n>> : n \in 1..Len(def.blocks[b].transitions)} : b \in 1..Len(def.blocks)}

EntryAt(p) == def.blocks[p[1]].transitions[p[2]]

SourceAt(p) == def.blocks[p[1]].initial_state

\* position p is declared before position q
Precedes(p, q) == p[1] < q[1] \/ (p[1] = q[1] /\ p[2] < q[2])

\* the entries with a Binding guard whose final arm is the wildcard `_`
WildcardClosed(e) ==
    /\ e.guard.kind = "binding"
    /\ e.guard.arms # <<>>
    /\ e.guard.arms[Len(e.guard.arms)].pattern = PWild

\* C6: if a Binding guard on (state, input) has a final arm whose pattern is
\* the unconditional wildcard, transition(state, i) is present for every
\* input i with that event name, whatever its field values.
C6_WildcardArmTotal ==
    last.op = "transition" /\
    (\E p \in Positions : /\ SourceAt(p) = last.s
                          /\ EntryAt(p).input.name = last.i.name
                          /\ WildcardClosed(EntryAt(p)))
        => last.t # NoId

\* an input whose field values satisfy only the wildcard arm got that arm's
\* target
C6_Witness ==
    /\ last.op = "transition"
    /\ \E p \in Positions :
          /\ SourceAt(p) = last.s
          /\ EntryAt(p).input.name = last.i.name
          /\ WildcardClosed(EntryAt(p))
          /\ \A q \in Positions : ~Precedes(q, p)
          /\ \A a \in 1..(Len(EntryAt(p).guard.arms) - 1) :
                EntryAt(p).guard.arms[a].pattern.kind = "tuple" /\
                ~SubMatches(EntryAt(p).guard.arms[a].pattern.elems[1], last.i.args[1])
          /\ last.t = EntryAt(p).guard.arms[Len(EntryAt(p).guard.arms)].final_state

\* the number of cases the claim gives an entry
CaseCount(e) == IF e.guard.kind = "binding" THEN Len(e.guard.arms) ELSE 1

\* the slots <<position, arm>> of the flat list
Slots == UNION {{<<p, a>> : a \in 1..CaseCount(EntryAt(p))} : p \in Positions}

\* the index in the flat list of arm a of the entry at position p
SlotIndex(p, a) == Cardinality({x \in Slots : Precedes(x[1], p)}) + a

\* C7: normalization yields the flat case list as the concatenation, in
\* declaration order of state blocks and of entries within each block, of
\* every entry's expansion: exactly one case for an unguarded or
\* Closure-guarded entry, and one case per arm, in arm order, for a
\* Binding-guarded entry.
C7_FlatListIsConcatenation ==
    phase = "built" /\ impl = "rust_fsm" =>
        /\ Len(cases) = Cardinality(Slots)
        /\ \A x \in Slots :
              LET e == EntryAt(x[1])
                  c == cases[SlotIndex(x[1], x[2])]
              IN  /\ c.initial_state = SourceAt(x[1])
                  /\ c.input_value = e.input
                  /\ e.guard.kind = "none" =>
                        /\ c.guard_expr.op = "none"
                        /\ c.final_state = e.final_state
                        /\ c.output = e.output
                  /\ e.guard.kind = "closure" =>
                        /\ c.guard_expr = e.guard.expr
                        /\ c.final_state = e.final_state
                        /\ c.output = e.output
                  /\ e.guard.kind = "binding" =>
                        /\ c.guard_expr.op = "matches"
                        /\ c.guard_expr.pat = e.guard.arms[x[2]].pattern
                        /\ c.final_state = e.guard.arms[x[2]].final_state
                        /\ c.output = e.guard.arms[x[2]].output

\* a two-arm Binding entry followed by another entry was normalized
C7_Witness ==
    /\ phase = "built"
    /\ impl = "rust_fsm"
    /\ Len(def.blocks[1].transitions) = 2
    /\ def.blocks[1].transitions[1].guard.kind = "binding"
    /\ Len(def.blocks[1].transitions[1].guard.arms) = 2
    /\ def.blocks[1].transitions[2].guard.kind # "binding"
    /\ Len(cases) = 4
    /\ cases[3].guard_expr = def.blocks[1].transitions[2].guard.expr

\* an entry with a Binding guard some tuple of field values satisfies no arm of
NonExhaustive(e) ==
    /\ e.guard.kind = "binding"
    /\ \E args \in ArgTuples(Len(e.input.fields)) :
          \A a \in 1..Len(e.guard.arms) : ~PatMatches(e.guard.arms[a].pattern, args)

\* C8: when the field values of an input satisfy no arm of a Binding guard on
\* (state, input), dispatch goes on to the later-declared cases for the same
\* (state, input), and transition returns no-transition if none applies; a
\* non-exhaustive set of arms is never rejected at build time.
C8_NonExhaustiveArmsAccepted ==
    /\ (\E p \in Positions : NonExhaustive(EntryAt(p))) => phase # "rejected"
    /\ last.op = "transition" =>
          \A p \in Positions :
             /\ SourceAt(p) = last.s
             /\ EntryAt(p).input.name = last.i.name
             /\ NonExhaustive(EntryAt(p))
             /\ \A a \in 1..Len(EntryAt(p).guard.arms) :
                   ~PatMatches(EntryAt(p).guard.arms[a].pattern, last.i.args)
             /\ \A q \in Positions : ~Precedes(q, p)
             => LET later == {k \in LastCandidates : k > Len(EntryAt(p).guard.arms)}
                IN  last.t = IF later = {} THEN NoId
                             ELSE FlatCases[Earliest(later)].final_state

\* C4: a consume(input) for which no case matches (current state, input)
\* returns TransitionImpossibleError and leaves the current state unchanged,
\* so every later consume behaves as if the rejected call had not been made.
C4_RejectedConsumeChangesNothing ==
    last.op = "consume" /\ LastCandidates = {} =>
        /\ last.err
        /\ last.o = NoOut
        /\ state = last.s
        /\ COUNT = last.cnt0

\* a machine that had left its initial state rejected an input
C4_Witness ==
    /\ last.op = "consume"
    /\ LastCandidates = {}
    /\ last.err
    /\ last.s # def.initial_state
    /\ state = last.s

\* the state reached by folding transition over the first n accepted inputs
RECURSIVE FoldTransition(_)
FoldTransition(n) ==
    IF n = 0 THEN def.initial_state
    ELSE LET prev == FoldTransition(n - 1)
         IN  TransitionCall(prev, accepted[n].i, accepted[n].cnt, prev).state

\* output(previous state, input) of the dispatch functions
DispatchOutput(s, i, cnt) ==
    IF impl = "rust_fsm" THEN OutputCall(s, i, cnt, s).out
    ELSE TransitionCall(s, i, cnt, s).out

\* C5: the wrapper starts in the declared initial state; each consume that
\* matches sets the current state to transition(previous state, input) and
\* returns output(previous state, input); after any sequence of inputs the
\* current state is the fold of transition over the accepted inputs from
\* the initial state, rejected inputs being skipped.
C5_StateIsFoldOfAccepted ==
    phase = "built" =>
        /\ accepted = <<>> => state = def.initial_state
        /\ state = FoldTransition(Len(accepted))
        /\ last.op = "consume" /\ ~last.err =>
              /\ state = TransitionCall(last.s, last.i, last.cnt0, last.s).state
              /\ last.o = DispatchOutput(last.s, last.i, last.cnt0)
              /\ accepted # <<>>
              /\ accepted[Len(accepted)].i = last.i
        /\ last.op = "consume" /\ last.err => state = last.s

\* two inputs had been accepted when a third was rejected
C5_Witness ==
    /\ Len(accepted) = 2
    /\ last.op = "consume"
    /\ last.err
    /\ state # def.initial_state
    /\ state = FoldTransition(2)

\* no closure of the definition reads or writes state outside its arguments
ClosuresPure(d) ==
    \A c \in {as_match_cases(d.blocks)[k] : k \in 1..Len(as_match_cases(d.blocks))} :
        /\ c.guard_expr.op # "count_gt"
        /\ ~(c.output.kind = "call" /\ c.output.fn = "inc_o2")

\* what the dispatch function recorded in last returns when evaluated again now
Reevaluated ==
    IF last.op = "transition"
    THEN LET r == TransitionCall(last.s, last.i, COUNT, state)
         IN  [t |-> r.state, o |-> r.out]
    ELSE [t |-> NoId, o |-> OutputCall(last.s, last.i, COUNT, state).out]

CallsOf(f) == {k \in 1..Len(last.calls) : last.calls[k].f = f}

\* C10: within every consume call the before-transition hook (when
\* configured) is invoked before the transition is computed and the
\* after-transition hook (when configured) after the state has been updated,
\* in that fixed order; transition and output never invoke a hook.
C10_HookOrder ==
    /\ last.op = "consume" =>
          /\ CallsOf("before_hook") = IF def.before_transition THEN {1} ELSE {}
          /\ \A b \in CallsOf("before_hook") : last.calls[b].st = last.s
          /\ \A b \in CallsOf("before_hook"), k \in CallsOf("transition") : b < k
          /\ CallsOf("transition") # {}
          /\ ~last.err =>
                CallsOf("after_hook") = IF def.after_transition THEN {Len(last.calls)} ELSE {}
          /\ \A a \in CallsOf("after_hook") :
                /\ ~last.err
                /\ last.calls[a].st = last.t
                /\ last.calls[a].st = state
                /\ \A k \in 1..Len(last.calls) : k # a => k < a
    /\ last.op \in {"transition", "output"} =>
          CallsOf("before_hook") \cup CallsOf("after_hook") = {}

\* a consume with both hooks configured changed the state and called, in
\* order, the before hook, transition and the after hook
C10_Witness ==
    /\ last.op = "consume"
    /\ def.before_transition
    /\ def.after_transition
    /\ ~last.err
    /\ last.s # state
    /\ last.calls[1] = Ev("before_hook", last.s)
    /\ last.calls[2] = Ev("transition", last.s)
    /\ last.calls[Len(last.calls)] = Ev("after_hook", state)

\* C11: the after-transition hook is invoked exactly once for each consume
\* that matches, with the pre-transition state, the consumed input, the new
\* state and the output of that transition, and it is not invoked for a
\* consume that returns TransitionImpossibleError.
C11_AfterHookOncePerMatch ==
    last.op = "consume" =>
        /\ def.after_transition /\ ~last.err =>
              /\ last.hook = <<[pre_state |-> last.s, input |-> last.i,
                                state |-> state, output |-> last.o]>>
              /\ Cardinality(CallsOf("after_hook")) = 1
        /\ last.err => last.hook = <<>> /\ CallsOf("after_hook") = {}
        /\ ~def.after_transition => last.hook = <<>>

\* the hook ran for a consume that changed the state and produced an output
C11_Witness ==
    /\ last.op = "consume"
    /\ def.after_transition
    /\ ~last.err
    /\ last.s # state
    /\ last.o # NoOut
    /\ Len(last.hook) = 1
    /\ last.hook[1].pre_state = last.s
    /\ last.hook[1].state = state

\* one call of the sequential run: consume of input i on the machine p
SeqConsume(p, i) ==
    [state |-> ConsumeCall(i, p.state, p.cnt).state,
     cnt |-> ConsumeCall(i, p.state, p.cnt).cnt,
     out |-> ConsumeCall(i, p.state, p.cnt).out,
     err |-> ConsumeCall(i, p.state, p.cnt).err]

\* the machine after the first n threads of order have consumed their input
\* one after the other, with what the n-th call returned
RECURSIVE SeqRun(_)
SeqRun(n) ==
    IF n = 0 THEN [state |-> def.initial_state, cnt |-> 0, out |-> NoOut, err |-> FALSE]
    ELSE SeqConsume(SeqRun(n - 1), local[order[n]].i)

\* the positions in order of the threads whose consume has returned
Returned == {k \in 1..Len(order) : result[order[k]].done}

\* C12: when several threads call consume on one machine, each holding the
\* same mutex, every consume is atomic: the state and every returned result
\* are those of a sequential order of the calls (the order in which the lock
\* was taken), and a rejected call leaves the state seen by the next caller
\* unchanged.
C12_MutexSerializesConsume ==
    phase = "built" /\ pc # <<>> =>
        /\ state = SeqRun(Cardinality(Returned)).state
        /\ COUNT = SeqRun(Cardinality(Returned)).cnt
        /\ \A k \in Returned :
              /\ result[order[k]].out = SeqRun(k).out
              /\ result[order[k]].err = SeqRun(k).err
        /\ \A k \in Returned :
              /\ result[order[k]].err
              /\ k < Len(order)
              /\ pc[order[k + 1]] # "locked"
              => local[order[k + 1]].seen = local[order[k]].seen

\* every thread has finished; the second to lock saw the state the first one
\* left, and at least one call was rejected
C12_Witness ==
    /\ pc # <<>>
    /\ \A t \in Threads : pc[t] = "done"
    /\ order[1] > order[2]
    /\ ~result[order[1]].err
    /\ local[order[2]].seen # def.initial_state
    /\ result[order[2]].err

\* a state that is the source of no entry of the definition
Sink(s) == \A p \in Positions : SourceAt(p) # s

\* C13: a state that is the source of no case rejects every input, so once
\* the machine reaches such a state every later consume fails and the
\* current state never changes again.
C13_SinkStateIsFinal ==
    /\ [](/\ last.op = "transition" /\ Sink(last.s) => last.t = NoId
          /\ last.op = "consume" /\ Sink(last.s) => last.err /\ state = last.s)
    /\ [][phase = "built" /\ Sink(state) => state' = state]_vars

\* the machine reached a state without cases and a consume there was rejected
C13_Witness ==
    /\ last.op = "consume"
    /\ Sink(last.s)
    /\ last.s # def.initial_state
    /\ last.err
    /\ state = last.s

\* the case deciding the call recorded in last; 0 when there is none
Selected == IF LastCandidates = {} THEN 0 ELSE Earliest(LastCandidates)

\* the recorded call returns an output: output() of rust-fsm-dsl, or
\* transition() of nxt-fsm-dsl
ReturnsOutput == last.op = "output" \/ (last.op = "transition" /\ impl = "nxt")

\* C14: when the case selected for (state, input) has a Call output, the
\* output returned is the call expression applied to the input's field values
\* in field order, also when the case is an arm of a Binding guard; a constant
\* arm of the same guard gives its constant.
C14_CallOutputOnFieldsInOrder ==
    ReturnsOutput /\ Selected # 0 =>
        /\ FlatCases[Selected].output.kind = "call" =>
              last.o = EvalCall(FlatCases[Selected].output.fn, last.i.args, last.cnt0).out
        /\ FlatCases[Selected].output.kind = "const" /\ impl = "nxt" =>
              last.o = ConstOut(FlatCases[Selected].output.id)

\* the divergence: nxt-fsm-dsl's transition() returned the call applied to
\* the fields in another order
CallAppliedOutOfOrder ==
    /\ impl = "nxt"
    /\ last.op = "transition"
    /\ Selected # 0
    /\ FlatCases[Selected].output.kind = "call"
    /\ FlatCases[Selected].guard_expr.op = "matches"
    /\ last.o # EvalCall(FlatCases[Selected].output.fn, last.i.args, last.cnt0).out

\* the macro has expanded the definition (rustc may still have refused the
\* expansion)
Expanded == phase # "parsed" /\ ExpandsWith(impl, def, features)

\* the definition without its external types
Plain(d) == WithTypes(d, FALSE, FALSE, FALSE)

\* every source state and every target state the definition mentions
Mentioned ==
    {SourceAt(p) : p \in Positions}
        \cup {def.blocks[n].initial_state : n \in DOMAIN def.blocks}
        \cup UNION {Transition_states(EntryAt(p)) : p \in Positions}

\* C15: without an external State type, the synthesized State set is exactly
\* every source and target state the definition mentions plus the initial
\* state, which is a member even when no block mentions it.
C15_StateSetIsMentionedPlusInitial ==
    Expanded /\ ~def.state_type =>
        types.state_impl = Enum(Mentioned \cup {def.initial_state})

\* the first case, in declaration order, that names event nm
FirstNaming(nm) ==
    FlatCases[Earliest({k \in DOMAIN FlatCases : FlatCases[k].input_value.name = nm})]

EventNames == {FlatCases[k].input_value.name : k \in DOMAIN FlatCases}

\* C16: without an external Input type, the synthesized Input alphabet has
\* exactly one entry per distinct event name of the TransitionCases, carrying
\* the field-type list of the name's first occurrence in declaration order.
C16_InputKeepsFirstFieldList ==
    phase = "built" /\ ~def.input_type =>
        types.input_impl = Enum({FirstNaming(nm).input_value : nm \in EventNames})

\* C17: without an external Output type, the synthesized Output alphabet is
\* exactly the set of Constant output identifiers on the TransitionCases; a
\* Call output adds no member.
C17_OutputSetIsConstants ==
    Expanded /\ ~def.output_type =>
        types.output_impl =
            Enum({FlatCases[k].output.id :
                    k \in {n \in DOMAIN FlatCases : FlatCases[n].output.kind = "const"}})

\* a machine was built whose cases carry a constant and a call output
C17_Witness ==
    /\ phase = "built"
    /\ ~def.output_type
    /\ \E j, k \in DOMAIN FlatCases :
          FlatCases[j].output.kind = "call" /\ FlatCases[k].output.kind = "const"
    /\ types.output_impl = Enum({"OutA"})

\* C18: an external type for one axis skips the synthesis for that axis only:
\* no type is generated for it, the other alphabets are those synthesized
\* without the override, and the list of TransitionCases is unchanged.
C18_ExternalTypeSkipsOneAxis ==
    Expanded =>
        /\ def.input_type => types.input_impl = NoImpl
        /\ def.state_type => types.state_impl = NoImpl
        /\ def.output_type => types.output_impl = NoImpl
        /\ ~def.input_type =>
              types.input_impl \in {ty.input_impl : ty \in Synthesized(impl, Plain(def))}
        /\ ~def.state_type =>
              types.state_impl \in {ty.state_impl : ty \in Synthesized(impl, Plain(def))}
        /\ ~def.output_type =>
              types.output_impl \in {ty.output_impl : ty \in Synthesized(impl, Plain(def))}
        /\ phase = "built" /\ impl = "rust_fsm" => cases = as_match_cases(Plain(def).blocks)

\* a machine was built with an external State type only, and its Input and
\* Output alphabets were generated
C18_Witness ==
    /\ phase = "built"
    /\ def.state_type /\ ~def.input_type /\ ~def.output_type
    /\ types.state_impl = NoImpl
    /\ types.input_impl.generated /\ types.input_impl.variants # {}
    /\ types.output_impl.generated /\ types.output_impl.variants # {}

\* the number of TransitionCases state block b expands to
BlockCases(b) == Len(ExpandEntries(b.initial_state, b.transitions))

\* C19: a block-form state declaration that expands to zero TransitionCases
\* is rejected with a build-time error and no machine is produced.
C19_EmptyBlockRejected ==
    phase # "parsed" /\ (\E n \in DOMAIN def.blocks : BlockCases(def.blocks[n]) = 0) =>
        phase = "rejected" /\ state = NoId

\* a Binding guard of the definition binds another number of names than its
\* input variant has fields
ArityMismatch(e) == e.guard.kind = "binding" /\ e.guard.bindings # Len(e.input.fields)

\* C20: a Binding guard whose bound-name count differs from the field count
\* of its input variant is rejected at build time, for any number of arms,
\* and no TransitionCase is produced from it.
C20_BindingArityMismatchRejected ==
    phase # "parsed" /\ (\E p \in Positions : ArityMismatch(EntryAt(p))) =>
        phase = "rejected" /\ cases = <<>> /\ state = NoId

\* C21: a definition with no state blocks is rejected: the compilation
\* produces only a compile error, none of the State, Input or Output types
\* and no dispatch function, so no machine exists.
C21_NoBlocksRejected ==
    phase # "parsed" /\ def.blocks = <<>> =>
        /\ phase = "rejected"
        /\ types = NoTypes
        /\ cases = <<>>
        /\ state = NoId

\* the definition expands, but the text of its diagram does not parse
RenderFails ==
    /\ "diagram" \in features
    /\ ExpandOk(impl, def)
    /\ ~RenderOk(impl, def, features)

\* C22: a diagram whose text cannot be rendered is fatal to the diagram only:
\* the build still produces the alphabet types and the dispatch, without a
\* diagram
C22_RenderErrorLosesOnlyDiagram ==
    phase # "parsed" /\ RenderFails =>
        /\ phase = "built"
        /\ types \in Synthesized(impl, def)
        /\ state = def.initial_state
        /\ ~diagram.rendered

\* rust-fsm-dsl has rendered the diagram of the built machine
DiagramBuilt == impl = "rust_fsm" /\ phase = "built" /\ diagram.rendered

\* the (state, input-name) pairs of the cases, and the cases of one pair in
\* declaration order
Pairs == {<<cases[k].initial_state, cases[k].input_value.name>> : k \in DOMAIN cases}

PairCases(key) ==
    LET Of(c) == c.initial_state = key[1] /\ c.input_value.name = key[2] IN SelectSeq(cases, Of)

Guarded(key) == {m \in DOMAIN PairCases(key) : PairCases(key)[m].guard_expr.op # "none"}

TwoGuarded == {key \in Pairs : Cardinality(Guarded(key)) >= 2}

\* the declared choice nodes, and the edges of the diagram in their order
ChoiceNodes == {diagram.lines[m].from : m \in {n \in DOMAIN diagram.lines : diagram.lines[n].k = "choice"}}

EdgesFrom(node) ==
    LET Of(l) == l.k = "edge" /\ l.from = node IN SelectSeq(diagram.lines, Of)

EdgesTo(node) ==
    LET Of(l) == l.k = "edge" /\ l.to = node IN SelectSeq(diagram.lines, Of)

\* the guard of case c without the punctuation the diagram syntax reserves
SanitizedGuard(c) ==
    LET Keep(t) == t # ":" IN SelectSeq(GuardText(c.guard_expr, "pretty-print" \in features), Keep)

\* C23: a pair with two or more guarded cases has the choice node
\* <state>_guard_<input>, and the edges that leave it are one per case of the
\* pair, in declaration order, each to its case's target and, for a guarded
\* case, labelled with the sanitized guard
C23_ChoiceNodeEdgesPerCase ==
    DiagramBuilt =>
        \A key \in TwoGuarded :
            /\ ChoiceNode(key[1], key[2]) \in ChoiceNodes
            /\ Len(EdgesFrom(ChoiceNode(key[1], key[2]))) = Len(PairCases(key))
            /\ \A m \in DOMAIN PairCases(key) :
                  LET l == EdgesFrom(ChoiceNode(key[1], key[2]))[m]
                      c == PairCases(key)[m]
                  IN  /\ l.to = StateNode(c.final_state)
                      /\ c.guard_expr.op # "none" => l.label = <<":">> \o SanitizedGuard(c)

C23_Witness ==
    /\ DiagramBuilt
    /\ \E key \in TwoGuarded :
          /\ Len(PairCases(key)) = 3
          /\ Len(EdgesFrom(ChoiceNode(key[1], key[2]))) = 3
          /\ EdgesFrom(ChoiceNode(key[1], key[2]))[1].to # EdgesFrom(ChoiceNode(key[1], key[2]))[2].to

\* no line of the diagram names the choice node of the pair
NoChoiceNode(key) ==
    /\ ChoiceNode(key[1], key[2]) \notin ChoiceNodes
    /\ EdgesFrom(ChoiceNode(key[1], key[2])) = <<>>
    /\ EdgesTo(ChoiceNode(key[1], key[2])) = <<>>

SelfLoopInputs(s) ==
    {cases[k].input_value.name :
        k \in {n \in DOMAIN cases : cases[n].initial_state = s /\ cases[n].final_state = s}}

EventIdents == {cases[k].input_value.name : k \in DOMAIN cases}

\* state s is rendered as a composite node: state s { ... }
Composite(s) == \E m \in DOMAIN diagram.lines : diagram.lines[m] = OpenLine(s)

\* every edge that names sub-node n lies between the braces of composite s
InsideComposite(s, n) ==
    \A j \in DOMAIN diagram.lines :
        /\ diagram.lines[j].k = "edge"
        /\ SubNode(s, n) \in {diagram.lines[j].from, diagram.lines[j].to}
        => \E i \in 1..(j - 1), k \in (j + 1)..Len(diagram.lines) :
              /\ diagram.lines[i] = OpenLine(s)
              /\ diagram.lines[k] = CloseLine(s)

\* composite s has exactly one sub-node for input n, entered from the start
\* marker of the composite
OneSubNode(s, n) ==
    /\ EdgesTo(SubNode(s, n)) = <<EdgeLine(Marker, SubNode(s, n), <<>>)>>
    /\ Len(EdgesFrom(SubNode(s, n))) = 1
    /\ InsideComposite(s, n)

NoSubNode(s, n) == EdgesTo(SubNode(s, n)) = <<>> /\ EdgesFrom(SubNode(s, n)) = <<>>

\* sub-node n of composite s loops internally: its edge ends at the marker
\* of the composite
LoopsInternally(s, n) == EdgesFrom(SubNode(s, n))[1].to = Marker

\* C24 as stated: a state with two or more self-loop inputs is a composite
\* node with exactly one sub-node per self-loop input, each looping
\* internally
C24_CompositeSubNodesLoopInternally ==
    DiagramBuilt =>
        \A s \in States :
            Cardinality(SelfLoopInputs(s)) >= 2 =>
                /\ Composite(s)
                /\ \A n \in EventIdents :
                      IF n \in SelfLoopInputs(s)
                      THEN OneSubNode(s, n) /\ LoopsInternally(s, n)
                      ELSE NoSubNode(s, n)

\* C24: a state is a composite node exactly when two or more input names
\* have a case looping back to it; the composite has exactly one sub-node
\* per self-loop input, which loops internally unless the pair of the state
\* and the input has a choice node, and then leads to that choice node
C24_CompositeSubNodePerSelfLoopInput ==
    DiagramBuilt =>
        \A s \in States :
            IF Cardinality(SelfLoopInputs(s)) >= 2
            THEN /\ Composite(s)
                 /\ \A n \in EventIdents :
                       IF n \in SelfLoopInputs(s)
                       THEN /\ OneSubNode(s, n)
                            /\ IF ChoiceNode(s, n) \in ChoiceNodes
                               THEN EdgesFrom(SubNode(s, n))[1].to = ChoiceNode(s, n)
                               ELSE LoopsInternally(s, n)
                       ELSE NoSubNode(s, n)
            ELSE ~Composite(s) /\ \A n \in EventIdents : NoSubNode(s, n)

C24_Witness ==
    /\ DiagramBuilt
    /\ \E s \in States :
          /\ Composite(s)
          /\ \E n1, n2 \in SelfLoopInputs(s) :
                /\ LoopsInternally(s, n1)
                /\ EdgesFrom(SubNode(s, n2))[1].to = ChoiceNode(s, n2)

\* C27: every choice node has exactly one incoming edge: from its state
\* when the state is not a composite node or no case of the input loops back
\* to the state, and otherwise from the input's sub-node inside the composite
C27_ChoiceNodeHasOneIncomingEdge ==
    DiagramBuilt =>
        \A node \in ChoiceNodes :
            EdgesTo(node) =
                <<EdgeLine(IF ~Composite(node.s) \/ node.n \notin SelfLoopInputs(node.s)
                           THEN StateNode(node.s)
                           ELSE SubNode(node.s, node.n),
                           node, <<>>)>>

C27_Witness ==
    /\ DiagramBuilt
    /\ \E node \in ChoiceNodes :
          /\ Composite(node.s)
          /\ node.n \in SelfLoopInputs(node.s)
          /\ EdgesTo(node)[1].from = SubNode(node.s, node.n)

\* the TransitionCases of the built definition whose diagram was rendered
DiagramRendered == phase = "built" /\ diagram.rendered

\* the diagram has an edge from state src to state tgt whose label starts
\* with the input name
DirectEdge(src, tgt, name) ==
    \E m \in DOMAIN diagram.lines :
        /\ diagram.lines[m].k = "edge"
        /\ diagram.lines[m].from = StateNode(src)
        /\ diagram.lines[m].to = StateNode(tgt)
        /\ Len(diagram.lines[m].label) >= 2
        /\ SubSeq(diagram.lines[m].label, 1, 2) = <<":", name>>

\* C25: every case whose pair has no choice node and whose target differs
\* from its source is rendered as a direct edge from the source state to the
\* target state, labelled with the input name
C25_UngroupedCaseIsDirectEdge ==
    DiagramRendered =>
        \A k \in DOMAIN FlatCases :
            /\ ChoiceNode(FlatCases[k].initial_state, FlatCases[k].input_value.name) \notin ChoiceNodes
            /\ FlatCases[k].final_state # FlatCases[k].initial_state
            => DirectEdge(FlatCases[k].initial_state, FlatCases[k].final_state,
                          FlatCases[k].input_value.name)

\* the guard evaluations of the consume call recorded in last
GuardEvaluations == {n \in DOMAIN last.calls : last.calls[n].f = "guard"}

\* the Closure-guarded cases of the pair of that call, and its cases that
\* come from an arm of a Binding guard and carry a pattern test instead
ClosureGuarded(s, i) ==
    {k \in DOMAIN FlatCases :
        /\ FlatCases[k].initial_state = s
        /\ FlatCases[k].input_value.name = i.name
        /\ FlatCases[k].guard_expr.op \notin {"none", "matches"}}

PatternGuarded(s, i) ==
    {k \in DOMAIN FlatCases :
        /\ FlatCases[k].initial_state = s
        /\ FlatCases[k].input_value.name = i.name
        /\ FlatCases[k].guard_expr.op = "matches"}

\* C26: one consume evaluates the guard of a Closure-guarded case at most
\* once, also when the case carries an output: a consume on a pair whose
\* guards are all closures evaluates no more guards than the pair has
\* Closure-guarded cases
C26_GuardEvaluatedAtMostOnce ==
    last.op = "consume" /\ PatternGuarded(last.s, last.i) = {} =>
        Cardinality(GuardEvaluations) <= Cardinality(ClosureGuarded(last.s, last.i))

\* the definition was parsed from its text
Parsed == phase \in {"parsed", "built", "rejected"} /\ source # NoSource

\* C28: a parsed TransitionEntry has an entry-level target exactly when its
\* guard is not a Binding guard, and no entry-level output when it is; so the
\* normalization of a parsed definition never fails for lack of a target
C28_EntryTargetIffNotBinding ==
    Parsed =>
        /\ \A e \in AllEntries(def) :
              /\ e.final_state # NoId <=> e.guard.kind # "binding"
              /\ e.guard.kind = "binding" => e.output = NoOutput
        /\ phase # "parsed" => ExpandOk(impl, def)

\* the target states of the TransitionCases
Targets == {FlatCases[k].final_state : k \in DOMAIN FlatCases}

\* C29: whatever inputs were consumed, accepted or rejected, the current
\* state of a machine is the initial state or the target of some case, and
\* so a variant of the generated State type
C29_CurrentStateInAlphabet ==
    phase = "built" =>
        /\ state \in {def.initial_state} \cup Targets
        /\ types.state_impl.generated => state \in types.state_impl.variants

C29_Witness ==
    /\ phase = "built"
    /\ last.op = "consume"
    /\ last.err
    /\ state \in Targets \ {def.initial_state}
    /\ \A k \in DOMAIN FlatCases : FlatCases[k].initial_state # state
    /\ types.state_impl.generated
====
